---- MODULE Spec2Model ----
(***************************************************************************)
(* Model of the YouTrend analysis engine, server/utils/data_processor.py:  *)
(* video and channel scoring, topic extraction, trend aggregation and      *)
(* niche comparison.                                                       *)
(*                                                                         *)
(* Numbers.  The engine computes with Python floats.  The model uses       *)
(* fixed point: a real r is the integer r * Scale (Scale = 10^6), the      *)
(* natural logarithm is computed to three decimals (LnMilli), and          *)
(* round(x, 4) rounds a fixed-point value to a multiple of Scale / 10^4.   *)
(*                                                                         *)
(* Time.  Instants are integers counted in ticks, TicksPerDay ticks to a   *)
(* day; timedelta.days is the floor of a tick difference over TicksPerDay. *)
(*                                                                         *)
(* Text.  A string is a sequence of one-character strings, so that         *)
(* lower(), the regular expressions, re.sub and strip are computed         *)
(* character by character.                                                 *)
(***************************************************************************)
EXTENDS Integers, Sequences, FiniteSets, TLC

VARIABLES videos, now, ret, quota, cache, calls

vars == <<videos, now, ret, quota, cache, calls>>

\* the records, the clock and the last call of the analysis engine
engineVars == <<videos, ret>>

\* the Redis entries and the cached_api_call invocations
cacheVars == <<quota, cache, calls>>

---------------------------------------------------------------------------
(* Bounds of the model *)

MaxVideos == 3

MaxTopN == 2

MaxNow == 2

MaxChannels == 1

MaxChannelVideos == 2

TicksPerDay == 2

\* the concurrent workers, and the cached_api_call invocations of each
MaxWorkers == 2

MaxCallsPerWorker == 2

---------------------------------------------------------------------------
(* Fixed-point arithmetic standing for Python's float arithmetic *)

Scale == 10^6

Min(a, b) == IF a <= b THEN a ELSE b

Max(a, b) == IF a >= b THEN a ELSE b

RECURSIVE FloorLog2(_)
FloorLog2(n) == IF n < 2 THEN 0 ELSE 1 + FloorLog2(n \div 2)

\* fractional bits of log2(m / 2^14) for 2^14 <= m < 2^15, by repeated squaring
RECURSIVE Log2Frac(_, _)
\* the bit the square sq of the mantissa decides, and the bits after it
Log2FracOfSquare(sq, bits) ==
    IF sq >= 2^15
    THEN 2^(bits - 1) + Log2Frac(sq \div 2, bits - 1)
    ELSE Log2Frac(sq, bits - 1)

Log2Frac(m, bits) ==
    IF bits = 0 THEN 0
    ELSE Log2FracOfSquare((m * m) \div (2^14), bits)

\* ln(n) * 1000 for an integer n >= 1  (ln 2 = 0.6931)
\* n scaled into 2^14 <= m < 2^15, k = floor(log2 n)
Mantissa(n, k) == IF k >= 14 THEN n \div (2^(k - 14)) ELSE n * (2^(14 - k))

\* log2(n) * 2^12, k = floor(log2 n)
Log2Fixed(n, k) == k * (2^12) + Log2Frac(Mantissa(n, k), 12)

LnMilli(n) == (Log2Fixed(n, FloorLog2(n)) * 6931) \div (10 * (2^12))

\* np.log1p(num / den) * 1000 for num >= 0, den >= 1
Log1pMilli(num, den) == LnMilli(num + den) - LnMilli(den)

\* a / b as a fixed-point value (a >= 0, b >= 1)
Ratio(a, b) == (a * Scale) \div b

\* round(num / den) of Python 3: to the nearest integer, halves to even
RoundHalfEven(num, den) ==
    IF 2 * (num % den) > den THEN (num \div den) + 1
    ELSE IF 2 * (num % den) < den THEN num \div den
    ELSE IF (num \div den) % 2 = 0 THEN num \div den ELSE (num \div den) + 1

\* round(x, 4) on a fixed-point value
Round4(x) == RoundHalfEven(x, Scale \div (10^4)) * (Scale \div (10^4))

\* min(max(np.log1p(x) / np.log1p(benchmark), 0.0), 1.0), x = num / den
ClampedLogRatio(lx, lb) ==
    IF lx >= lb THEN Scale
    ELSE Min(Max(((lx * (Scale \div 10)) \div lb) * 10, 0), Scale)

NormalizedLog(num, den, benchmark) ==
    ClampedLogRatio(Log1pMilli(num, den), Log1pMilli(benchmark, 1))

---------------------------------------------------------------------------
(* Records handed to the engine *)

\* the value int() is applied to: a numeral, a non-numeric string, or a
\* key that is absent (the .get default 0 applies)
Num(n) == [tag |-> "num", val |-> n]

NonNumeric == [tag |-> "bad", val |-> 0]

AbsentCount == [tag |-> "absent", val |-> 0]

\* int(statistics.get(key, 0)): the integer, or -1 standing for ValueError
IntOf(c) == IF c.tag = "bad" THEN -1 ELSE c.val

Raises(n) == n < 0

\* snippet.publishedAt: a parseable timestamp, an unparseable one, or absent
DateAt(t) == [tag |-> "date", t |-> t]

BadDate == [tag |-> "unparseable", t |-> 0]

NoDate == [tag |-> "absent", t |-> 0]

\* the 'statistics' object of a record; present = FALSE when the key is absent
Stats(v, l, c) == [present |-> TRUE, viewCount |-> v, likeCount |-> l, commentCount |-> c]

NoStatistics == [present |-> FALSE, viewCount |-> AbsentCount,
                 likeCount |-> AbsentCount, commentCount |-> AbsentCount]

\* the id of a record without an 'id' key
NoId == "<no id>"

\* a record without snippet, or a snippet without title
NoTitle == <<"<no title>">>

NoChannel == "<no channel>"

Video(id, title, stats, publishedAt, channelId) ==
    [id |-> id, title |-> title, statistics |-> stats,
     publishedAt |-> publishedAt, channelId |-> channelId]

\* a channel resource: its id and statistics.subscriberCount
Channel(id, subscriberCount) == [id |-> id, subscriberCount |-> subscriberCount]

---------------------------------------------------------------------------
(* calculate_video_score *)

VIEW_BENCHMARK == 1000000000

\* mutant: the division is guarded by max(views, 1) instead of views > 0
EngagementRateFloorViews(view_count, like_count, comment_count) ==
    Ratio(like_count + comment_count, Max(view_count, 1))

\* engagement rate (likes + comments / views), 0 when there are no views
EngagementRate(view_count, like_count, comment_count) ==
    IF view_count > 0 THEN Ratio(like_count + comment_count, view_count) ELSE 0

\* days_since_published at instant t: timedelta.days, a floor
DaysSince(publishedAt, t) == (t - publishedAt.t) \div TicksPerDay

\* 1 / (1 + days) for a parseable date not in the future, else 0
RecencyScore(publishedAt, t) ==
    IF publishedAt.tag = "date" /\ DaysSince(publishedAt, t) >= 0
    THEN Scale \div (1 + DaysSince(publishedAt, t))
    ELSE 0

NormalizedViews(view_count) == NormalizedLog(view_count, 1, VIEW_BENCHMARK)

\* mutant: the engagement rate is weighted without the clamp
ClampedEngagementUnclamped(engagement_rate) == engagement_rate

\* the clamp of the engagement rate inside the weighted sum
ClampedEngagement(engagement_rate) == Min(engagement_rate, Scale)

\* 0.4 * views + 0.4 * engagement + 0.2 * recency
WeightedVideoScore(normalized_views, engagement_rate, recency_score) ==
    (4 * normalized_views + 4 * ClampedEngagement(engagement_rate)
       + 2 * recency_score) \div 10

\* the three int() conversions at the head of the try block
VideoCounts(video) ==
    [view  |-> IntOf(video.statistics.viewCount),
     like  |-> IntOf(video.statistics.likeCount),
     comment |-> IntOf(video.statistics.commentCount)]

CountsRaise(c) == Raises(c.view) \/ Raises(c.like) \/ Raises(c.comment)

\* the terms of the score of a record whose counts convert
VideoScoreTerms(video, t) ==
    [normalized_views |-> NormalizedViews(VideoCounts(video).view),
     engagement_rate  |-> EngagementRate(VideoCounts(video).view,
                                         VideoCounts(video).like,
                                         VideoCounts(video).comment),
     recency_score    |-> RecencyScore(video.publishedAt, t)]

\* score = round(0.4 * views + 0.4 * engagement + 0.2 * recency, 4)
ScoreOfTerms(terms) ==
    Round4(WeightedVideoScore(terms.normalized_views, terms.engagement_rate,
                              terms.recency_score))

\* the score at instant t; an exception inside the try block gives 0.0
calculate_video_score(video, t) ==
    IF CountsRaise(VideoCounts(video)) THEN 0
    ELSE ScoreOfTerms(VideoScoreTerms(video, t))

---------------------------------------------------------------------------
(* calculate_channel_score *)

SUBSCRIBER_BENCHMARK == 200000000

AVG_VIEWS_BENCHMARK == 50000000

\* v.get('statistics') is truthy: the object is present and not empty
StatsTruthy(st) ==
    st.present /\ (st.viewCount.tag # "absent" \/ st.likeCount.tag # "absent"
                   \/ st.commentCount.tag # "absent")

RECURSIVE SumSeq(_)
SumSeq(s) == IF s = <<>> THEN 0 ELSE Head(s) + SumSeq(Tail(s))

\* the view_counts comprehension: records with a statistics object only
RECURSIVE ChannelViewCounts(_)
ChannelViewCounts(vs) ==
    IF vs = <<>> THEN <<>>
    ELSE (IF StatsTruthy(Head(vs).statistics)
          THEN <<IntOf(Head(vs).statistics.viewCount)>>
          ELSE <<>>) \o ChannelViewCounts(Tail(vs))

\* the instants of the records whose publishedAt parses
ChannelPublishDates(vs) ==
    {vs[i].publishedAt.t : i \in {j \in 1..Len(vs) : vs[j].publishedAt.tag = "date"}}

ChannelDateCount(vs) ==
    Cardinality({j \in 1..Len(vs) : vs[j].publishedAt.tag = "date"})

SetMax(S) == CHOOSE x \in S : \A y \in S : y <= x

SetMin(S) == CHOOSE x \in S : \A y \in S : x <= y

\* videos per month over the span between the earliest and the latest date
DaysSpan(dates) == (SetMax(dates) - SetMin(dates)) \div TicksPerDay

FrequencyOverSpan(count, days_span) ==
    IF days_span > 0 THEN Ratio(count * 30, days_span) ELSE 0

\* mutant: a single dated video counts as one video in 30 days
PostingFrequencyOfOne(vs) ==
    IF ChannelDateCount(vs) >= 2
    THEN FrequencyOverSpan(ChannelDateCount(vs), DaysSpan(ChannelPublishDates(vs)))
    ELSE Ratio(ChannelDateCount(vs) * 30, 30)

PostingFrequency(vs) ==
    IF ChannelDateCount(vs) >= 2
    THEN FrequencyOverSpan(ChannelDateCount(vs), DaysSpan(ChannelPublishDates(vs)))
    ELSE 0

NormalizedFrequency(posting_frequency) ==
    Max(Min(posting_frequency \div 30, Scale), 0)

\* 0.3 * subscribers + 0.4 * average views + 0.3 * posting frequency
WeightedChannelScore(normalized_subscribers, normalized_avg_views, normalized_frequency) ==
    (3 * normalized_subscribers + 4 * normalized_avg_views
       + 3 * normalized_frequency) \div 10

\* the score of a channel with its associated videos (<<>> for None or [])
\* an int() conversion of the try block raises ValueError
ChannelCountsRaise(subscriber_count, view_counts) ==
    \/ Raises(subscriber_count)
    \/ \E i \in 1..Len(view_counts) : Raises(view_counts[i])

\* the average of the view counts against its benchmark, 0 without videos
NormalizedAvgViews(view_counts) ==
    IF Len(view_counts) > 0
    THEN NormalizedLog(SumSeq(view_counts), Len(view_counts), AVG_VIEWS_BENCHMARK)
    ELSE 0

ChannelScoreOf(subscriber_count, view_counts, posting_frequency) ==
    Round4(WeightedChannelScore(
        NormalizedLog(subscriber_count, 1, SUBSCRIBER_BENCHMARK),
        NormalizedAvgViews(view_counts),
        NormalizedFrequency(posting_frequency)))

calculate_channel_score(channel, vs) ==
    IF ChannelCountsRaise(IntOf(channel.subscriberCount), ChannelViewCounts(vs))
    THEN 0
    ELSE ChannelScoreOf(IntOf(channel.subscriberCount), ChannelViewCounts(vs),
                        PostingFrequency(vs))

---------------------------------------------------------------------------
(* Text: str.lower, the regular expressions of the topic extractor,
   re.findall, re.sub and str.strip *)

UpperCase == <<"A", "B", "C", "D", "E", "F", "G", "H", "I", "J", "K", "L", "M",
               "N", "O", "P", "Q", "R", "S", "T", "U", "V", "W", "X", "Y", "Z">>

LowerCase == <<"a", "b", "c", "d", "e", "f", "g", "h", "i", "j", "k", "l", "m",
               "n", "o", "p", "q", "r", "s", "t", "u", "v", "w", "x", "y", "z">>

LowerChar(c) ==
    IF \E i \in 1..Len(UpperCase) : UpperCase[i] = c
    THEN LowerCase[CHOOSE i \in 1..Len(UpperCase) : UpperCase[i] = c]
    ELSE c

\* str.lower()
Lower(text) == [i \in 1..Len(text) |-> LowerChar(text[i])]

IsDigit(c) == c \in {"0", "1", "2", "3", "4", "5", "6", "7", "8", "9"}

IsSpace(c) == c \in {" ", "\t", "\n"}

InClass(c, cls) == IF cls = "d" THEN IsDigit(c) ELSE IsSpace(c)

\* elements of a pattern: a literal string, a greedy run of a character
\* class (\s or \d, at least min characters), an optional literal string
Str(chars) == [k |-> "str", cs |-> chars, cls |-> "", min |-> 0]

Cls(cls, min) == [k |-> "cls", cs |-> <<>>, cls |-> cls, min |-> min]

Opt(chars) == [k |-> "opt", cs |-> chars, cls |-> "", min |-> 0]

\* common_keywords_patterns: each pattern is the sequence of its
\* alternatives, each alternative the sequence of its elements
common_keywords_patterns ==
    <<
       <<<<Str(<<"h", "o", "w">>), Cls("s", 1), Str(<<"t", "o">>)>>>>,   \* how\s+to
       <<<<Str(<<"t", "u", "t", "o", "r", "i", "a", "l">>)>>>>,   \* tutorial
       <<<<Str(<<"g", "u", "i", "d", "e">>)>>>>,   \* guide
       <<<<Str(<<"e", "x", "p", "l", "a", "i", "n", "e", "d">>)>>>>,   \* explained
       <<<<Str(<<"f", "o", "r">>), Cls("s", 1), Str(<<"b", "e", "g", "i", "n", "n", "e", "r", "s">>)>>>>,   \* for\s+beginners
       <<<<Str(<<"r", "e", "v", "i", "e", "w">>)>>>>,   \* review
       <<<<Str(<<"v", "s">>), Opt(<<".">>)>>, <<Str(<<"v", "e", "r", "s", "u", "s">>)>>>>,   \* vs\.?|versus
       <<<<Str(<<"c", "o", "m", "p", "a", "r", "i", "s", "o", "n">>)>>>>,   \* comparison
       <<<<Str(<<"t", "o", "p">>), Cls("s", 0), Cls("d", 1)>>>>,   \* top\s*\d+
       <<<<Str(<<"b", "e", "s", "t">>), Cls("s", 0), Cls("d", 0)>>>>,   \* best\s*\d*
       <<<<Str(<<"w", "o", "r", "s", "t">>), Cls("s", 0), Cls("d", 0)>>>>,   \* worst\s*\d*
       <<<<Cls("d", 1), Cls("s", 0), Str(<<"t", "i", "p", "s">>)>>>>,   \* \d+\s*tips
       <<<<Cls("d", 1), Cls("s", 0), Str(<<"w", "a", "y", "s">>)>>>>,   \* \d+\s*ways
       <<<<Str(<<"r", "e", "a", "c", "t">>), Opt(<<"i", "o", "n">>), Opt(<<"s">>)>>>>,   \* react(?:ion)?s?
       <<<<Str(<<"c", "h", "a", "l", "l", "e", "n", "g", "e">>)>>>>,   \* challenge
       <<<<Str(<<"i", "n", "t", "e", "r", "v", "i", "e", "w">>)>>>>,   \* interview
       <<<<Str(<<"g", "a", "m", "e", "p", "l", "a", "y">>)>>>>,   \* gameplay
       <<<<Str(<<"w", "a", "l", "k", "t", "h", "r", "o", "u", "g", "h">>)>>>>,   \* walkthrough
       <<<<Str(<<"h", "i", "g", "h", "l", "i", "g", "h", "t">>), Opt(<<"s">>)>>>>,   \* highlights?
       <<<<Str(<<"m", "o", "n", "t", "a", "g", "e">>)>>>>,   \* montage
       <<<<Str(<<"p", "o", "d", "c", "a", "s", "t">>)>>>>,   \* podcast
       <<<<Str(<<"n", "e", "w", "s">>)>>>>,   \* news
       <<<<Str(<<"u", "p", "d", "a", "t", "e">>)>>>>,   \* update
       <<<<Str(<<"v", "l", "o", "g">>)>>>>,   \* vlog
       <<<<Str(<<"u", "n", "b", "o", "x", "i", "n", "g">>)>>>>,   \* unboxing
       <<<<Str(<<"d", "i", "y">>)>>>>,   \* diy
       <<<<Str(<<"e", "a", "s", "y">>)>>>>,   \* easy
       <<<<Str(<<"q", "u", "i", "c", "k">>)>>>>,   \* quick
       <<<<Str(<<"s", "i", "m", "p", "l", "e">>)>>>>,   \* simple
       <<<<Str(<<"u", "l", "t", "i", "m", "a", "t", "e">>)>>>>,   \* ultimate
       <<<<Str(<<"c", "o", "m", "p", "l", "e", "t", "e">>)>>>>   \* complete
    >>

\* the literal chars occurs in text at position pos
LiteralAt(chars, text, pos) ==
    /\ pos + Len(chars) - 1 <= Len(text)
    /\ \A i \in 1..Len(chars) : text[pos + i - 1] = chars[i]

\* length of the longest run of characters of the class from position pos
RECURSIVE RunLength(_, _, _)
RunLength(text, pos, cls) ==
    IF pos <= Len(text) /\ InClass(text[pos], cls)
    THEN 1 + RunLength(text, pos + 1, cls)
    ELSE 0

\* the position after the element matched at pos, or 0 when it does not
\* match.  No element of the patterns above is followed by one that
\* could use a character the greedy choice took, so the greedy match is
\* the match of the backtracking engine.
MatchElement(e, text, pos) ==
    IF e.k = "str"
    THEN IF LiteralAt(e.cs, text, pos) THEN pos + Len(e.cs) ELSE 0
    ELSE IF e.k = "opt"
    THEN IF LiteralAt(e.cs, text, pos) THEN pos + Len(e.cs) ELSE pos
    ELSE IF RunLength(text, pos, e.cls) >= e.min
    THEN pos + RunLength(text, pos, e.cls)
    ELSE 0

RECURSIVE MatchSequence(_, _, _, _)
\* element i matched up to next (0: no match): the elements after it
MatchRest(alt, i, text, next) ==
    IF next = 0 THEN 0 ELSE MatchSequence(alt, i + 1, text, next)

MatchSequence(alt, i, text, pos) ==
    IF i > Len(alt) THEN pos
    ELSE MatchRest(alt, i, text, MatchElement(alt[i], text, pos))

\* the first alternative that matches at pos decides the match
RECURSIVE MatchAt(_, _, _, _)
\* alternative a matched up to next (0: no match, the next one is tried)
MatchOrNext(pattern, a, text, pos, next) ==
    IF next # 0 THEN next ELSE MatchAt(pattern, a + 1, text, pos)

MatchAt(pattern, a, text, pos) ==
    IF a > Len(pattern) THEN 0
    ELSE MatchOrNext(pattern, a, text, pos, MatchSequence(pattern[a], 1, text, pos))

\* re.findall(pattern, text): the non-overlapping matches, left to right
RECURSIVE FindAll(_, _, _)
\* the pattern matched at pos up to next (an empty match or none: the
\* scan moves one character on)
FindFrom(pattern, text, pos, next) ==
    IF next > pos
    THEN <<SubSeq(text, pos, next - 1)>> \o FindAll(pattern, text, next)
    ELSE FindAll(pattern, text, pos + 1)

FindAll(pattern, text, pos) ==
    IF pos > Len(text) THEN <<>>
    ELSE FindFrom(pattern, text, pos, MatchAt(pattern, 1, text, pos))

\* mutant: every digit, not every run of digits, becomes an N
RECURSIVE SubDigitsEachDigit(_, _)
SubDigitsEachDigit(text, pos) ==
    IF pos > Len(text) THEN <<>>
    ELSE IF IsDigit(text[pos])
         THEN <<"N">> \o SubDigitsEachDigit(text, pos + 1)
         ELSE <<text[pos]>> \o SubDigitsEachDigit(text, pos + 1)

\* re.sub(r'\d+', 'N', text): every maximal run of digits becomes one N
RECURSIVE SubDigits(_, _)
SubDigits(text, pos) ==
    IF pos > Len(text) THEN <<>>
    ELSE IF IsDigit(text[pos])
         THEN <<"N">> \o SubDigits(text, pos + RunLength(text, pos, "d"))
         ELSE <<text[pos]>> \o SubDigits(text, pos + 1)

\* str.strip()
RECURSIVE Strip(_)
Strip(text) ==
    IF text = <<>> THEN <<>>
    ELSE IF IsSpace(Head(text)) THEN Strip(Tail(text))
    ELSE IF IsSpace(text[Len(text)]) THEN Strip(SubSeq(text, 1, Len(text) - 1))
    ELSE text

\* normalized_topic = re.sub(r'\d+', 'N', match_text).strip()
NormalizeTopic(match_text) == Strip(SubDigits(match_text, 1))

---------------------------------------------------------------------------
(* extract_topics_from_videos *)

\* the match texts of one pattern after the other in a lower-cased title
RECURSIVE TitleMatches(_, _)
TitleMatches(title, p) ==
    IF p > Len(common_keywords_patterns) THEN <<>>
    ELSE FindAll(common_keywords_patterns[p], title, 1) \o TitleMatches(title, p + 1)

\* mutant: every match is kept (a list, not a set)
AddFoundEvery(found, normalized_topic) ==
    IF Len(normalized_topic) > 2
    THEN Append(found, normalized_topic)
    ELSE found

\* found_topics_for_video in the order the topics are found: the
\* normalized matches longer than 2 characters, each one once
AddFound(found, normalized_topic) ==
    IF Len(normalized_topic) > 2
       /\ \A j \in 1..Len(found) : found[j] # normalized_topic
    THEN Append(found, normalized_topic)
    ELSE found

RECURSIVE FoundTopics(_, _, _)
FoundTopics(matches, i, found) ==
    IF i > Len(matches) THEN found
    ELSE FoundTopics(matches, i + 1, AddFound(found, NormalizeTopic(matches[i])))

\* the topics found in a title
TitleTopics(title) == FoundTopics(TitleMatches(Lower(title), 1), 1, <<>>)

\* "Top 10 Gadgets"
TitleTop10 ==
    <<"T", "o", "p", " ", "1", "0", " ", "G", "a", "d", "g", "e", "t", "s">>

\* "Top 5 Gadgets"
TitleTop5 ==
    <<"T", "o", "p", " ", "5", " ", "G", "a", "d", "g", "e", "t", "s">>

\* "How to Fix Gadgets"
TitleHowTo ==
    <<"H", "o", "w", " ", "t", "o", " ", "F", "i", "x", " ", "G", "a", "d", "g", "e", "t", "s">>

\* "top 5 vs top 10 vlog"
TitleVersus ==
    <<"t", "o", "p", " ", "5", " ", "v", "s", " ", "t", "o", "p", " ", "1", "0", " ", "v", "l", "o", "g">>

\* "Gadget Vlog"
TitleVlog ==
    <<"G", "a", "d", "g", "e", "t", " ", "V", "l", "o", "g">>

\* "Cooking"
TitlePlain ==
    <<"C", "o", "o", "k", "i", "n", "g">>

PoolTitles == {TitleTop10, TitleTop5, TitleHowTo, TitleVersus, TitleVlog, TitlePlain}

\* the topics of the titles above, computed once
PoolTitleTopics == [title \in PoolTitles |-> TitleTopics(title)]

\* the topics one video record contributes to
VideoTopics(video) ==
    IF video.title \in PoolTitles THEN PoolTitleTopics[video.title]
    ELSE TitleTopics(video.title)

\* engagement_score_component: likes + comments of a video with views
EngagementComponent(view_count, like_count, comment_count) ==
    IF view_count > 0 THEN like_count + comment_count ELSE 0

TopicIndex(perf, name) ==
    IF \E i \in 1..Len(perf) : perf[i].name = name
    THEN CHOOSE i \in 1..Len(perf) : perf[i].name = name
    ELSE 0

\* mutant: the id is recorded only when the topic is created
AddToTopicKeepIds(perf, name, view_count, engagement, id) ==
    IF TopicIndex(perf, name) = 0
    THEN Append(perf, [name |-> name, total_views |-> view_count,
                       total_engagement_score |-> engagement,
                       video_ids |-> {id}])
    ELSE [perf EXCEPT ![TopicIndex(perf, name)] =
             [name |-> name,
              total_views |-> @.total_views + view_count,
              total_engagement_score |-> @.total_engagement_score + engagement,
              video_ids |-> @.video_ids]]

\* topic_performance[name] += (views, engagement, id); a new key is
\* appended, as a dict keeps its keys in insertion order
AddToTopic(perf, name, view_count, engagement, id) ==
    IF TopicIndex(perf, name) = 0
    THEN Append(perf, [name |-> name, total_views |-> view_count,
                       total_engagement_score |-> engagement,
                       video_ids |-> {id}])
    ELSE [perf EXCEPT ![TopicIndex(perf, name)] =
             [name |-> name,
              total_views |-> @.total_views + view_count,
              total_engagement_score |-> @.total_engagement_score + engagement,
              video_ids |-> @.video_ids \cup {id}]]

RECURSIVE AddVideoTopics(_, _, _, _)
AddVideoTopics(perf, topics, i, video) ==
    IF i > Len(topics) THEN perf
    ELSE AddVideoTopics(
             AddToTopic(perf, topics[i], VideoCounts(video).view,
                        EngagementComponent(VideoCounts(video).view,
                                            VideoCounts(video).like,
                                            VideoCounts(video).comment),
                        video.id),
             topics, i + 1, video)

\* the loop over the videos, for records that raise nothing
RECURSIVE TopicPerformance(_, _, _)
TopicPerformance(vs, i, perf) ==
    IF i > Len(vs) THEN perf
    ELSE TopicPerformance(vs, i + 1,
                          AddVideoTopics(perf, VideoTopics(vs[i]), 1, vs[i]))

\* int() of a non-numeric count raises ValueError, and video['id'] raises
\* KeyError when a topic is found in a record without an id
TopicRecordRaises(video) ==
    \/ CountsRaise(VideoCounts(video))
    \/ (video.id = NoId /\ VideoTopics(video) # <<>>)

\* (log1p(avg views) + log1p(avg engagement)) * log1p(video count)
CompositeScore(total_views, total_engagement_score, count) ==
    (Log1pMilli(total_views, count) + Log1pMilli(total_engagement_score, count))
        * Log1pMilli(count, 1)

\* round(x, 2) of x = num / den, as a fixed-point value
Round2(num, den) == RoundHalfEven(num * 100, den) * (Scale \div 100)

\* the entry of a topic with count distinct video ids
TopicEntryOf(data, count) ==
    [name |-> data.name,
     aggregated_views |-> data.total_views,
     avg_views_per_video |-> RoundHalfEven(data.total_views, count),
     avg_engagement_score_per_video |-> Round2(data.total_engagement_score, count),
     video_count |-> count,
     composite_score |-> CompositeScore(data.total_views,
                                        data.total_engagement_score, count)]

TopicEntry(data) == TopicEntryOf(data, Cardinality(data.video_ids))

\* mutant: the sort is ascending (reverse=True forgotten)
TopicBeforeAscending(a, b) ==
    \/ a.composite_score < b.composite_score
    \/ (a.composite_score = b.composite_score /\ a.video_count < b.video_count)

\* the sort key (composite_score, video_count) of a: a before b under reverse=True
TopicBefore(a, b) ==
    \/ a.composite_score > b.composite_score
    \/ (a.composite_score = b.composite_score /\ a.video_count > b.video_count)

\* list.sort(reverse=True) is stable: x goes behind every entry that
\* does not sort strictly after it
RECURSIVE InsertTopic(_, _)
InsertTopic(sorted, x) ==
    IF sorted = <<>> THEN <<x>>
    ELSE IF TopicBefore(x, Head(sorted)) THEN <<x>> \o sorted
    ELSE <<Head(sorted)>> \o InsertTopic(Tail(sorted), x)

RECURSIVE SortTopics(_, _, _)
SortTopics(entries, i, sorted) ==
    IF i > Len(entries) THEN sorted
    ELSE SortTopics(entries, i + 1, InsertTopic(sorted, entries[i]))

\* ranked_topics before the slice
TopicEntries(perf) == [i \in 1..Len(perf) |-> TopicEntry(perf[i])]

RankedTopics(vs) ==
    SortTopics(TopicEntries(TopicPerformance(vs, 1, <<>>)), 1, <<>>)

\* s[:n] for n >= 0
Take(s, n) == SubSeq(s, 1, Min(n, Len(s)))

\* the call: [raised |-> TRUE] when an exception leaves the function
extract_topics_from_videos(vs, top_n) ==
    IF vs = <<>> THEN [raised |-> FALSE, val |-> <<>>]
    ELSE IF \E i \in 1..Len(vs) : TopicRecordRaises(vs[i])
    THEN [raised |-> TRUE, val |-> <<>>]
    ELSE [raised |-> FALSE, val |-> Take(RankedTopics(vs), top_n)]

---------------------------------------------------------------------------
(* analyze_video_trends and compare_niches *)

\* mutant: a record goes before the records of equal score
RECURSIVE InsertByScoreTiesFirst(_, _, _)
InsertByScoreTiesFirst(sorted, v, t) ==
    IF sorted = <<>> THEN <<v>>
    ELSE IF calculate_video_score(v, t) >= calculate_video_score(Head(sorted), t)
    THEN <<v>> \o sorted
    ELSE <<Head(sorted)>> \o InsertByScoreTiesFirst(Tail(sorted), v, t)

\* sorted(videos, key=calculate_video_score, reverse=True), a stable sort
RECURSIVE InsertByScore(_, _, _)
InsertByScore(sorted, v, t) ==
    IF sorted = <<>> THEN <<v>>
    ELSE IF calculate_video_score(v, t) > calculate_video_score(Head(sorted), t)
    THEN <<v>> \o sorted
    ELSE <<Head(sorted)>> \o InsertByScore(Tail(sorted), v, t)

RECURSIVE SortByScore(_, _, _, _)
SortByScore(vs, i, sorted, t) ==
    IF i > Len(vs) THEN sorted
    ELSE SortByScore(vs, i + 1, InsertByScore(sorted, vs[i], t), t)

\* total_views = sum(int(viewCount)) over the list
TotalViews(vs) == SumSeq([i \in 1..Len(vs) |-> IntOf(vs[i].statistics.viewCount)])

\* total_engagement_sum: likes + comments of the videos that have views
EngagementOfCounts(c) == IF c.view > 0 THEN c.like + c.comment ELSE 0

TotalEngagementSum(vs) ==
    SumSeq([i \in 1..Len(vs) |-> EngagementOfCounts(VideoCounts(vs[i]))])

\* likes and comments are converted for the videos with views only
AggregationCountsRaise(c) ==
    Raises(c.view) \/ (c.view > 0 /\ (Raises(c.like) \/ Raises(c.comment)))

\* the int() conversions of the two aggregation loops raise
AggregationRaises(vs) ==
    \E i \in 1..Len(vs) : AggregationCountsRaise(VideoCounts(vs[i]))

\* mutant: the reported rate is clamped to 1
AverageEngagementRateClamped(total_engagement_sum, total_views) ==
    IF total_views > 0
    THEN Min(RoundHalfEven(total_engagement_sum * (10^4), total_views) * (Scale \div (10^4)),
             Scale)
    ELSE 0

\* round(total_engagement_sum / total_views, 4), 0 without views
AverageEngagementRate(total_engagement_sum, total_views) ==
    IF total_views > 0
    THEN RoundHalfEven(total_engagement_sum * (10^4), total_views) * (Scale \div (10^4))
    ELSE 0

\* round(total_views / len(videos))
AverageViews(total_views, n) == RoundHalfEven(total_views, n)

TrendTopVideo(v, t) ==
    [id |-> v.id, title |-> v.title, channel_id |-> v.channelId,
     views |-> IntOf(v.statistics.viewCount),
     likes |-> IntOf(v.statistics.likeCount),
     comments |-> IntOf(v.statistics.commentCount),
     published_at |-> v.publishedAt,
     score |-> calculate_video_score(v, t)]

\* the result for a non-empty list, top its best videos and topics the
\* outcome of the topic extraction
VideoTrends(vs, top, topics, t) ==
    IF \/ AggregationRaises(vs)
       \/ \E i \in 1..Len(top) : CountsRaise(VideoCounts(top[i]))
       \/ topics.raised
    THEN [raised |-> TRUE, val |-> <<>>]
    ELSE [raised |-> FALSE,
          val |-> [total_videos_analyzed |-> Len(vs),
                   average_views |-> AverageViews(TotalViews(vs), Len(vs)),
                   average_engagement_rate |->
                       AverageEngagementRate(TotalEngagementSum(vs), TotalViews(vs)),
                   top_videos |-> [i \in 1..Len(top) |-> TrendTopVideo(top[i], t)],
                   trending_topics |-> topics.val]]

analyze_video_trends(vs, top_n_videos, top_n_topics, t) ==
    IF vs = <<>>
    THEN [raised |-> FALSE,
          val |-> [error |-> "No videos provided for analysis.",
                   average_views |-> 0,
                   average_engagement_rate |-> 0,
                   top_videos |-> <<>>,
                   trending_topics |-> <<>>]]
    ELSE VideoTrends(vs, Take(SortByScore(vs, 1, <<>>, t), top_n_videos),
                     extract_topics_from_videos(vs, top_n_topics), t)

NICHE_TOP_VIDEOS == 5

NICHE_TOP_CHANNELS == 5

NICHE_TOP_TOPICS == 10

ChannelIndex(perf, cid) ==
    IF \E i \in 1..Len(perf) : perf[i].id = cid
    THEN CHOOSE i \in 1..Len(perf) : perf[i].id = cid
    ELSE 0

\* channel_performance_in_niche, keyed by channelId in insertion order;
\* a record without channelId is left out
AddToChannel(perf, k, cid, views) ==
    IF k = 0
    THEN Append(perf, [id |-> cid, niche_video_count |-> 1,
                       niche_total_views |-> views])
    ELSE [perf EXCEPT ![k] =
             [id |-> @.id,
              niche_video_count |-> @.niche_video_count + 1,
              niche_total_views |-> @.niche_total_views + views]]

RECURSIVE ChannelPerformance(_, _, _)
ChannelPerformance(vs, i, perf) ==
    IF i > Len(vs) THEN perf
    ELSE IF vs[i].channelId = NoChannel THEN ChannelPerformance(vs, i + 1, perf)
    ELSE ChannelPerformance(vs, i + 1,
             AddToChannel(perf, ChannelIndex(perf, vs[i].channelId),
                          vs[i].channelId, IntOf(vs[i].statistics.viewCount)))

\* mutant: the channels are sorted by ascending views
RECURSIVE InsertChannelAscending(_, _)
InsertChannelAscending(sorted, x) ==
    IF sorted = <<>> THEN <<x>>
    ELSE IF x.niche_total_views < Head(sorted).niche_total_views THEN <<x>> \o sorted
    ELSE <<Head(sorted)>> \o InsertChannelAscending(Tail(sorted), x)

\* sort(key=niche_total_views, reverse=True), stable
RECURSIVE InsertChannel(_, _)
InsertChannel(sorted, x) ==
    IF sorted = <<>> THEN <<x>>
    ELSE IF x.niche_total_views > Head(sorted).niche_total_views THEN <<x>> \o sorted
    ELSE <<Head(sorted)>> \o InsertChannel(Tail(sorted), x)

RECURSIVE SortChannels(_, _, _)
SortChannels(entries, i, sorted) ==
    IF i > Len(entries) THEN sorted
    ELSE SortChannels(entries, i + 1, InsertChannel(sorted, entries[i]))

NicheTopVideo(v, t) ==
    [id |-> v.id, title |-> v.title,
     views |-> IntOf(v.statistics.viewCount),
     score |-> calculate_video_score(v, t)]

\* the result for a non-empty niche, top its best videos and topics the
\* outcome of the topic extraction
NicheTrends(vs, top, topics, t) ==
    IF \/ AggregationRaises(vs)
       \/ topics.raised
    THEN [raised |-> TRUE, val |-> <<>>]
    ELSE [raised |-> FALSE,
          val |-> [total_videos_in_selection |-> Len(vs),
                   average_views |-> AverageViews(TotalViews(vs), Len(vs)),
                   average_engagement_rate |->
                       AverageEngagementRate(TotalEngagementSum(vs), TotalViews(vs)),
                   top_videos |-> [i \in 1..Len(top) |-> NicheTopVideo(top[i], t)],
                   top_channels_in_niche |->
                       Take(SortChannels(ChannelPerformance(vs, 1, <<>>), 1, <<>>),
                            NICHE_TOP_CHANNELS),
                   trending_topics |-> topics.val]]

\* the body of the loop of compare_niches for one niche
NicheAnalysis(vs, t) ==
    IF vs = <<>>
    THEN [raised |-> FALSE,
          val |-> [error |-> "No video data provided for this niche.",
                   average_views |-> 0,
                   average_engagement_rate |-> 0,
                   top_videos |-> <<>>,
                   top_channels_in_niche |-> <<>>,
                   trending_topics |-> <<>>]]
    ELSE NicheTrends(vs, Take(SortByScore(vs, 1, <<>>, t), NICHE_TOP_VIDEOS),
                     extract_topics_from_videos(vs, NICHE_TOP_TOPICS), t)

\* mutant: average_views is reported relative to the smallest average of
\* the niches of the call
ComparisonResultsRelative(analyses) ==
    IF \E n \in DOMAIN analyses : analyses[n].raised
    THEN [raised |-> TRUE, val |-> <<>>]
    ELSE [raised |-> FALSE,
          val |-> [n \in DOMAIN analyses |->
                      [analyses[n].val EXCEPT !.average_views =
                          @ - SetMin({analyses[m].val.average_views :
                                         m \in DOMAIN analyses})]]]

\* comparison_results of the analyses of the niches; an exception in any
\* niche leaves the function
ComparisonResults(analyses) ==
    IF \E n \in DOMAIN analyses : analyses[n].raised
    THEN [raised |-> TRUE, val |-> <<>>]
    ELSE [raised |-> FALSE, val |-> [n \in DOMAIN analyses |-> analyses[n].val]]

\* niches_data maps niche names to video lists
compare_niches(niches_data, t) ==
    ComparisonResults([n \in DOMAIN niches_data |-> NicheAnalysis(niches_data[n], t)])

---------------------------------------------------------------------------
(* The clock read at every calculate_video_score call.  The functions
   score each video once for the sort and once more for the reported
   entry; sorted_at and scored_at are the instants of the two passes. *)

AnalyzeVideoTrendsOver(vs, top_n_videos, top_n_topics, sorted_at, scored_at) ==
    IF vs = <<>> THEN analyze_video_trends(vs, top_n_videos, top_n_topics, sorted_at)
    ELSE VideoTrends(vs, Take(SortByScore(vs, 1, <<>>, sorted_at), top_n_videos),
                     extract_topics_from_videos(vs, top_n_topics), scored_at)

NicheAnalysisOver(vs, sorted_at, scored_at) ==
    IF vs = <<>> THEN NicheAnalysis(vs, sorted_at)
    ELSE NicheTrends(vs, Take(SortByScore(vs, 1, <<>>, sorted_at), NICHE_TOP_VIDEOS),
                     extract_topics_from_videos(vs, NICHE_TOP_TOPICS), scored_at)

CompareNichesOver(niches_data, sorted_at, scored_at) ==
    ComparisonResults([n \in DOMAIN niches_data |->
                          NicheAnalysisOver(niches_data[n], sorted_at, scored_at)])

---------------------------------------------------------------------------
(* analyze_channel_trends *)

\* c.get('statistics') is truthy
ChannelHasStats(c) == c.subscriberCount.tag # "absent"

RECURSIVE InsertScored(_, _)
InsertScored(sorted, x) ==
    IF sorted = <<>> THEN <<x>>
    ELSE IF x.score > Head(sorted).score THEN <<x>> \o sorted
    ELSE <<Head(sorted)>> \o InsertScored(Tail(sorted), x)

RECURSIVE SortScored(_, _, _)
SortScored(entries, i, sorted) ==
    IF i > Len(entries) THEN sorted
    ELSE SortScored(entries, i + 1, InsertScored(sorted, entries[i]))

\* videos_by_channel maps channel ids to video lists (the empty mapping
\* stands for None as well: both give every channel the empty list)
\* videos_by_channel.get(channel_id, [])
ChannelVideos(ch, videos_by_channel) ==
    IF ch.id \in DOMAIN videos_by_channel THEN videos_by_channel[ch.id] ELSE <<>>

\* scored_channels: every channel with its score
ScoredChannels(channels_details, videos_by_channel) ==
    [i \in 1..Len(channels_details) |->
        [id |-> channels_details[i].id,
         subscriberCount |-> channels_details[i].subscriberCount,
         score |-> calculate_channel_score(
                       channels_details[i],
                       ChannelVideos(channels_details[i], videos_by_channel))]]

\* total_subscribers over the channels that have statistics
TotalSubscribers(channels_details) ==
    SumSeq([i \in 1..Len(channels_details) |->
               IF ChannelHasStats(channels_details[i])
               THEN IntOf(channels_details[i].subscriberCount) ELSE 0])

\* the result for a non-empty list, top its best channels
ChannelTrends(channels_details, top) ==
    IF \E i \in 1..Len(channels_details) :
           Raises(IntOf(channels_details[i].subscriberCount))
    THEN [raised |-> TRUE, val |-> <<>>]
    ELSE [raised |-> FALSE,
          val |-> [total_channels_analyzed |-> Len(channels_details),
                   average_subscribers |->
                       RoundHalfEven(TotalSubscribers(channels_details),
                                     Len(channels_details)),
                   top_channels |->
                       [i \in 1..Len(top) |->
                           [id |-> top[i].id,
                            subscribers |-> IntOf(top[i].subscriberCount),
                            score |-> top[i].score]]]]

analyze_channel_trends(channels_details, videos_by_channel, top_n_channels) ==
    IF channels_details = <<>>
    THEN [raised |-> FALSE,
          val |-> [error |-> "No channel data provided for analysis.",
                   average_subscribers |-> 0,
                   top_channels |-> <<>>]]
    ELSE ChannelTrends(channels_details,
                       Take(SortScored(ScoredChannels(channels_details, videos_by_channel),
                                       1, <<>>),
                            top_n_channels))

---------------------------------------------------------------------------
(* generate_video_ideas *)

IDEA_MIN_TOPICS == 5

EXAMPLE_POOL == 10

EXAMPLE_TITLE_CUT == 50

\* 'Example Title', the default of the title lookup of the example
EXAMPLE_TITLE ==
    <<"E", "x", "a", "m", "p", "l", "e", " ", "T", "i", "t", "l", "e">>

\* video.get('snippet', {}).get('title', '')
TitleOrEmpty(video) == IF video.title = NoTitle THEN <<>> ELSE video.title

\* relevant_video_example.get('snippet', {}).get('title', 'Example Title')
TitleOrExample(video) == IF video.title = NoTitle THEN EXAMPLE_TITLE ELSE video.title

UpperChar(c) ==
    IF \E i \in 1..Len(LowerCase) : LowerCase[i] = c
    THEN UpperCase[CHOOSE i \in 1..Len(LowerCase) : LowerCase[i] = c]
    ELSE c

\* str.capitalize(): the first character upper-cased, the others lower-cased
Capitalize(text) ==
    [i \in 1..Len(text) |-> IF i = 1 THEN UpperChar(text[i]) ELSE LowerChar(text[i])]

\* needle in haystack
Contains(haystack, needle) ==
    \E pos \in 1..(Len(haystack) + 1) : LiteralAt(needle, haystack, pos)

\* the loop over sorted_videos[:10]: the index of the first candidate whose
\* lower-cased title contains the lower-cased topic name, 0 when the loop
\* ends without a break
RECURSIVE FirstMention(_, _, _)
FirstMention(candidates, i, topic_name) ==
    IF i > Len(candidates) THEN 0
    ELSE IF Contains(Lower(TitleOrEmpty(candidates[i])), Lower(topic_name)) THEN i
    ELSE FirstMention(candidates, i + 1, topic_name)

\* the candidate found, else sorted_videos[0]
ExampleAt(sorted_videos, k) == IF k # 0 THEN sorted_videos[k] ELSE sorted_videos[1]

\* mutant: the whole sorted list is searched for a mention
relevant_video_example_anywhere(sorted_videos, topic_name) ==
    ExampleAt(sorted_videos, FirstMention(sorted_videos, 1, topic_name))

\* relevant_video_example of a topic.  sorted_videos is not empty and a
\* video record is never the empty dict, so an example always exists and
\* the branch of the generic idea is not taken.
relevant_video_example(sorted_videos, topic_name) ==
    ExampleAt(sorted_videos,
              FirstMention(Take(sorted_videos, EXAMPLE_POOL), 1, topic_name))

\* mutant: the thresholds belong to the outer tiers
ViewPotentialInclusive(avg_topic_views) ==
    IF avg_topic_views >= 100000 THEN "High"
    ELSE IF avg_topic_views <= 10000 THEN "Low to Medium"
    ELSE "Medium"

ViewPotential(avg_topic_views) ==
    IF avg_topic_views > 100000 THEN "High"
    ELSE IF avg_topic_views < 10000 THEN "Low to Medium"
    ELSE "Medium"

CompetitionLevel(video_count, avg_topic_views) ==
    IF video_count > 10 /\ avg_topic_views > 50000 THEN "High"
    ELSE IF video_count < 5 THEN "Low"
    ELSE "Medium"

\* an f-string: its literal text with {} for each hole, and the values
\* that fill the holes
Text(template, fills) == [template |-> template, fills |-> fills]

\* the dict appended to video_ideas
Idea(topic_data, example_title) ==
    [title |-> Text("\"{}\": Inspired by \"{}...\"",
                    <<Capitalize(topic_data.name),
                      Take(example_title, EXAMPLE_TITLE_CUT)>>),
     description |->
         Text("Create a video about '{}'. This topic is currently performing well. Consider a style similar to successful videos like '{}...'. Estimated Potential: {} views, {} competition. Focus on a catchy thumbnail and clear, engaging content.",
              <<topic_data.name, Take(example_title, EXAMPLE_TITLE_CUT),
                ViewPotential(topic_data.avg_views_per_video),
                CompetitionLevel(topic_data.video_count,
                                 topic_data.avg_views_per_video)>>),
     topic |-> topic_data.name,
     estimated_view_potential |-> ViewPotential(topic_data.avg_views_per_video),
     estimated_competition |->
         CompetitionLevel(topic_data.video_count, topic_data.avg_views_per_video),
     format_suggestion |-> Text("Adapt content from '{}' format.", <<topic_data.name>>),
     thumbnail_tip |->
         Text("Use bright colors, clear text, and expressive faces/objects if relevant.",
              <<>>)]

RECURSIVE IdeasLoop(_, _, _, _, _)
\* after the append: break once top_n_ideas ideas are there
IdeasAfterAppend(considered, i, sorted_videos, top_n_ideas, video_ideas) ==
    IF Len(video_ideas) >= top_n_ideas THEN video_ideas
    ELSE IdeasLoop(considered, i + 1, sorted_videos, top_n_ideas, video_ideas)

\* the loop over topics[:max(top_n_ideas, 5)]
IdeasLoop(considered, i, sorted_videos, top_n_ideas, video_ideas) ==
    IF i > Len(considered) THEN video_ideas
    ELSE IdeasAfterAppend(
             considered, i, sorted_videos, top_n_ideas,
             Append(video_ideas,
                    Idea(considered[i],
                         TitleOrExample(relevant_video_example(sorted_videos,
                                                               considered[i].name)))))

\* mutant: five topics are considered, whatever top_n_ideas is
ConsideredTopicsFive(topics, top_n_ideas) == Take(topics, IDEA_MIN_TOPICS)

\* topics[:max(top_n_ideas, 5)]
ConsideredTopics(topics, top_n_ideas) ==
    Take(topics, Max(top_n_ideas, IDEA_MIN_TOPICS))

\* the call at instant t; nothing in the function raises
generate_video_ideas(topics, vs, top_n_ideas, t) ==
    IF topics = <<>> \/ vs = <<>> THEN [raised |-> FALSE, val |-> <<>>]
    ELSE [raised |-> FALSE,
          val |-> Take(IdeasLoop(ConsideredTopics(topics, top_n_ideas), 1,
                                 SortByScore(vs, 1, <<>>, t), top_n_ideas, <<>>),
                       top_n_ideas)]

---------------------------------------------------------------------------
(* GET /trends, server/api/trends.py *)

TRENDS_TOP_TOPICS == 10

TRENDS_TOP_IDEAS == 10

\* a top_videos entry as the engine reads it: the entry has the key id,
\* and neither snippet nor statistics
EntryAsVideo(entry) == Video(entry.id, NoTitle, NoStatistics, NoDate, NoChannel)

\* the response data built from the analysis; the ideas are generated from
\* trending_topics and from the top_videos entries
TrendsResponse(analysis, t) ==
    [raised |-> FALSE,
     val |-> [total_videos_analyzed |-> analysis.total_videos_analyzed,
              top_videos |-> analysis.top_videos,
              trending_topics |-> analysis.trending_topics,
              video_ideas |->
                  generate_video_ideas(
                      analysis.trending_topics,
                      [i \in 1..Len(analysis.top_videos) |->
                          EntryAsVideo(analysis.top_videos[i])],
                      TRENDS_TOP_IDEAS, t).val]]

\* the handler for the fetched videos vs; an exception of the analysis
\* becomes an HTTP error
get_trends(vs, max_results, t) ==
    IF vs = <<>>
    THEN [raised |-> FALSE,
          val |-> [total_videos_analyzed |-> 0, top_videos |-> <<>>,
                   trending_topics |-> <<>>, video_ideas |-> <<>>]]
    ELSE IF analyze_video_trends(vs, max_results, TRENDS_TOP_TOPICS, t).raised
    THEN [raised |-> TRUE, val |-> <<>>]
    ELSE TrendsResponse(analyze_video_trends(vs, max_results, TRENDS_TOP_TOPICS, t).val, t)

---------------------------------------------------------------------------
(* The Redis cache and the quota counter, server/utils/cache.py *)

\* the threads or processes that run cached_api_call against one Redis
Workers == 1..MaxWorkers

\* the keys generate_cache_key gives for the calls made
CacheKeys == {"youtrend:search:1", "youtrend:videos:2"}

\* the quota_cost of a call
QuotaCosts == {1, 100}

\* a Redis key without expiry
NoExpiry == -1

\* the key QUOTA_KEY is absent
NoEntry == [present |-> FALSE, value |-> 0, expires |-> NoExpiry]

\* the key holds value until the instant expires
Entry(value, expires) == [present |-> TRUE, value |-> value, expires |-> expires]

\* redis_client.get finds the key: Redis drops a key whose expiry has come
Live(entry, t) == entry.present /\ (entry.expires = NoExpiry \/ t < entry.expires)

\* the instant seconds_until_midnight from t: the end of the UTC day of t
EndOfDay(t) == t + (TicksPerDay - (t % TicksPerDay))

\* a worker outside cached_api_call; charged is the sum of the quota costs
\* of its invocations that tracked their cost, started counts its
\* invocations
NoInvocation ==
    [pc |-> "idle", cache_key |-> "", quota_cost |-> 0, current_usage |-> 0,
     charged |-> 0, started |-> 0]

---------------------------------------------------------------------------
(* Optional collection arguments *)

\* the argument None
None == [given |-> FALSE, items |-> <<>>]

\* the argument is a list
Given(items) == [given |-> TRUE, items |-> items]

\* Python's `not x` for x a list or None
Not(x) == ~x.given \/ x.items = <<>>

\* what the guard `if not x: return ...` at the head of a function lets
\* through: for None, as for [], the function returns at the guard
AfterGuard(x) == IF Not(x) THEN <<>> ELSE x.items

---------------------------------------------------------------------------
(* _parse_duration_to_seconds *)

DecimalDigits == <<"0", "1", "2", "3", "4", "5", "6", "7", "8", "9">>

DigitValue(c) == (CHOOSE i \in 1..10 : DecimalDigits[i] = c) - 1

\* int() of a non-empty string of digits
RECURSIVE IntOfDigits(_)
IntOfDigits(chars) ==
    IF chars = <<>> THEN 0
    ELSE IntOfDigits(SubSeq(chars, 1, Len(chars) - 1)) * 10
             + DigitValue(chars[Len(chars)])

\* the group (?:(\d+)<unit>)? takes part in the match at pos: digits are
\* there and the unit letter follows them
GroupMatches(text, pos, unit) ==
    /\ RunLength(text, pos, "d") >= 1
    /\ LiteralAt(<<unit>>, text, pos + RunLength(text, pos, "d"))

\* the position after the optional group
GroupEnd(text, pos, unit) ==
    IF GroupMatches(text, pos, unit)
    THEN pos + RunLength(text, pos, "d") + 1
    ELSE pos

\* int(parts[name] or 0)
GroupValue(text, pos, unit) ==
    IF GroupMatches(text, pos, unit)
    THEN IntOfDigits(SubSeq(text, pos, pos + RunLength(text, pos, "d") - 1))
    ELSE 0

\* re.match anchors the pattern at the start of the string, not at its
\* end: the match object exists as soon as the string starts with PT
DurationMatch(text) == LiteralAt(<<"P", "T">>, text, 1)

\* hours * 3600 + minutes * 60 + seconds of the groups of the match
DurationOfMatch(text) ==
    GroupValue(text, 3, "H") * 3600
        + GroupValue(text, GroupEnd(text, 3, "H"), "M") * 60
        + GroupValue(text, GroupEnd(text, GroupEnd(text, 3, "H"), "M"), "S")

\* duration_str is None or a string
parse_duration_to_seconds(duration_str) ==
    IF Not(duration_str) THEN 0
    ELSE IF ~DurationMatch(duration_str.items) THEN 0
    ELSE DurationOfMatch(duration_str.items)

---------------------------------------------------------------------------
(* The caller's inputs as a call leaves them *)

\* mutant: the caller's list is sorted in place (videos.sort(...))
AfterSortedInPlace(vs, t) == SortByScore(vs, 1, <<>>, t)

\* sorted(videos, key=..., reverse=True) builds a new list: the caller's
\* list after the call
AfterSorted(vs, t) == vs

\* {**ch_detail, "score": score} builds a new dict: the caller's channel
\* record after the call
AfterScored(ch, score) == ch

\* the caller's channel list after analyze_channel_trends
ChannelsAfterScoring(channels_details, videos_by_channel) ==
    [i \in 1..Len(channels_details) |->
        AfterScored(channels_details[i],
                    ScoredChannels(channels_details, videos_by_channel)[i].score)]

---------------------------------------------------------------------------
(* The records the input supplier hands over *)

VideoTop10 ==
    Video("a", TitleTop10, Stats(Num(1000), Num(10), Num(5)), DateAt(0), "c1")

VideoTop5 ==
    Video("b", TitleTop5, Stats(Num(2000), Num(20), Num(0)), DateAt(1), "c1")

VideoHowTo ==
    Video("c", TitleHowTo, Stats(Num(500), Num(50), Num(5)), DateAt(2), "c2")

\* no views but likes, several matches in the title, the id of VideoTop10
VideoNoViews ==
    Video("a", TitleVersus, Stats(Num(0), Num(5), Num(0)), DateAt(0), NoChannel)

\* a non-numeric viewCount
VideoBadCount ==
    Video("d", TitleTop10, Stats(NonNumeric, Num(1), Num(1)), DateAt(0), "c2")

\* no id key, unparseable date
VideoNoId ==
    Video(NoId, TitleHowTo, Stats(Num(100), Num(1), Num(1)), BadDate, "c1")

\* no statistics key
VideoNoStats ==
    Video("e", TitleVlog, NoStatistics, DateAt(1), "c2")

VideoPool == {VideoTop10, VideoTop5, VideoHowTo, VideoNoViews,
              VideoBadCount, VideoNoId, VideoNoStats}

\* the records calculate_video_score is called with
ScoreStats ==
    {Stats(v, l, c) : v \in {Num(0), Num(1), Num(1000), Num(2000000000), NonNumeric},
                      l \in {Num(0), Num(5), Num(1500)},
                      c \in {Num(0), Num(7)}}
      \cup {NoStatistics}

ScoreDates == {DateAt(0), DateAt(1), DateAt(MaxNow + TicksPerDay), BadDate, NoDate}

ScorePool == {Video("s", TitlePlain, st, d, "c1") : st \in ScoreStats, d \in ScoreDates}

ChannelPool ==
    {Channel("c1", sc) : sc \in {Num(0), Num(5000), Num(300000000), NonNumeric, AbsentCount}}

\* the sequences of shorter, and each of them with one more element of S
OneLonger(shorter, S) == shorter \cup {Append(q, x) : q \in shorter, x \in S}

RECURSIVE SeqsUpTo(_, _)
SeqsUpTo(S, n) == IF n = 0 THEN {<<>>} ELSE OneLonger(SeqsUpTo(S, n - 1), S)

NicheNames == {"x", "y"}

\* a record that outscores the others of its batch
VideoFiller ==
    Video("f", TitlePlain, Stats(Num(100000000), Num(0), Num(0)), DateAt(0), "c1")

VideoVlog ==
    Video("g", TitleVlog, Stats(Num(1000), Num(10), Num(5)), DateAt(0), "c2")

\* more likes and comments than views, two 'top <number>' in the title
VideoViral ==
    Video("h", TitleVersus, Stats(Num(100), Num(150), Num(7)), DateAt(1), "c2")

Fillers(k) == [i \in 1..k |-> VideoFiller]

MaxFillers == 10

\* the batches handed over as a whole; the last ones put a video whose
\* title mentions 'vlog' behind EXAMPLE_POOL - 1 .. MaxFillers better
\* scored videos
BatchPool ==
    {<<>>,
     <<VideoTop10, VideoTop5, VideoHowTo>>,
     <<VideoVlog, VideoViral, VideoHowTo>>,
     <<VideoViral>>,
     <<VideoNoStats, VideoTop10>>,
     <<VideoTop10, VideoBadCount>>}
      \cup {<<VideoVlog>> \o Fillers(k) : k \in (EXAMPLE_POOL - 1)..MaxFillers}

TopNKey == <<"t", "o", "p", " ", "N">>

HowToKey == <<"h", "o", "w", " ", "t", "o">>

VlogKey == <<"v", "l", "o", "g">>

ReviewKey == <<"r", "e", "v", "i", "e", "w">>

ChallengeKey == <<"c", "h", "a", "l", "l", "e", "n", "g", "e">>

GuideKey == <<"g", "u", "i", "d", "e">>

PodcastKey == <<"p", "o", "d", "c", "a", "s", "t">>

\* a topic as generate_video_ideas reads it
Topic(name, avg_views_per_video, video_count) ==
    [name |-> name, avg_views_per_video |-> avg_views_per_video,
     video_count |-> video_count]

\* a ranking of topics handed to generate_video_ideas; the averages
\* 100000, 10000 and 50000 and the counts 10 and 4 sit on the thresholds
\* of the estimates
TopicRanking ==
    <<Topic(VlogKey, 1000, 2), Topic(HowToKey, 200000, 12), Topic(TopNKey, 60000, 11),
      Topic(ReviewKey, 100000, 10), Topic(ChallengeKey, 10000, 4),
      Topic(GuideKey, 50000, 11), Topic(PodcastKey, 5000, 5)>>

TopicLists == {Take(TopicRanking, k) : k \in 0..Len(TopicRanking)}

MaxIdeas == 6

\* published a tick before VideoNewer, and scored a little above it while
\* both are less than a day old
VideoOlder ==
    Video("o", TitleVlog, Stats(Num(2000), Num(20), Num(0)), DateAt(0), "c1")

VideoNewer ==
    Video("n", TitleHowTo, Stats(Num(1000), Num(10), Num(5)), DateAt(1), "c2")

\* the channels of the records of ChannelSpread: one more channel than
\* NICHE_TOP_CHANNELS, one of them twice, and a record without channelId
SpreadChannels == <<"c1", "c2", "c3", "c4", "c5", "c6", "c2", NoChannel>>

SpreadViews == <<300, 100, 500, 300, 200, 50, 450, 900>>

SpreadIds == <<"p1", "p2", "p3", "p4", "p5", "p6", "p7", "p8">>

ChannelSpread ==
    [k \in 1..Len(SpreadChannels) |->
        Video(SpreadIds[k], TitlePlain, Stats(Num(SpreadViews[k]), Num(1), Num(0)),
              DateAt(0), SpreadChannels[k])]

\* the batches analysed while the clock runs; VideoNoViews and
\* VideoNoStats have the same score while both are less than a day old
ClockBatches ==
    {<<>>,
     ChannelSpread,
     <<VideoNewer, VideoOlder>>,
     <<VideoNoStats, VideoNoViews, VideoTop10>>,
     <<VideoNoViews, VideoNoStats>>,
     <<VideoTop10, VideoTop5, VideoHowTo>>,
     <<VideoTop10, VideoBadCount>>}

\* the decimal numeral of n, 0 <= n < 100
Numeral(n) ==
    IF n < 10 THEN <<DecimalDigits[n + 1]>>
    ELSE <<DecimalDigits[(n \div 10) + 1], DecimalDigits[(n % 10) + 1]>>

\* a component of a duration token; -1 stands for the absent component
Component(n, unit) == IF n < 0 THEN <<>> ELSE Numeral(n) \o <<unit>>

\* the token PT#H#M#S
DurationToken(hours, minutes, seconds) ==
    <<"P", "T">> \o Component(hours, "H") \o Component(minutes, "M")
        \o Component(seconds, "S")

MaxComponent == 12

\* strings that are not duration tokens: trailing garbage, components out
\* of order, no PT prefix, a date part, lower case, the empty string
MalformedDurations ==
    {<<"P", "T", "1", "H", "x">>,
     <<"P", "T", "1", "H", "2", "M", "3", "S", " ", "!">>,
     <<"P", "T", "5", "S", "3", "M">>,
     <<"P", "T", "3", "M", "1", "H">>,
     <<"1", "H">>,
     <<"P", "1", "D">>,
     <<"p", "t", "5", "s">>,
     <<"P", "T", "S">>,
     <<>>}

\* the values _parse_duration_to_seconds is called with
DurationPool ==
    {None}
      \cup {Given(text) : text \in MalformedDurations}
      \cup {Given(DurationToken(h, m, s)) : h \in {-1, 1}, m \in {-1, 2, MaxComponent},
                                            s \in {-1, 0, 3}}

---------------------------------------------------------------------------
(* The state machine.  videos is the batch of records the caller holds,
   now the wall clock, ret the last call with its arguments and result. *)

\* the arguments of a call; channels_left is the caller's channel list as
\* the call left it, absent tells that the collection argument was None,
\* elapsed is the time the clock advanced by during the call, piped tells
\* that the topics are the ones extracted from the batch
NoArgs == [video |-> VideoTop10, channel |-> Channel("c1", AbsentCount),
           videos |-> <<>>, top_n |-> 0, top_n_videos |-> 0,
           niches_data |-> <<>>, channels |-> <<>>, channels_left |-> <<>>,
           topics |-> <<>>, absent |-> FALSE, duration |-> None, elapsed |-> 0,
           piped |-> FALSE]

NoCall == [op |-> "none", at |-> 0, arg |-> NoArgs, raised |-> FALSE,
           val |-> [none |-> TRUE]]

Call(op, at, arg, raised, val) ==
    [op |-> op, at |-> at, arg |-> arg, raised |-> raised, val |-> val]

\* the value the caller receives, under the name its reader looks it up
Value(field, val) ==
    IF field = "topics" THEN [topics |-> val]
    ELSE IF field = "ideas" THEN [ideas |-> val]
    ELSE IF field = "results" THEN [results |-> val]
    ELSE [payload |-> val]

\* the call with the outcome r of the function: an exception, or a value
Returned(op, at, arg, r, field) ==
    Call(op, at, arg, r.raised, IF r.raised THEN [none |-> TRUE] ELSE Value(field, r.val))

Init ==
    /\ videos = <<>>
    /\ now = 0
    /\ ret = NoCall
    /\ quota = NoEntry
    /\ cache = {}
    /\ calls = [w \in Workers |-> NoInvocation]

\* the wall clock advances
Tick ==
    /\ now < MaxNow
    /\ now' = now + 1
    /\ UNCHANGED <<videos, ret>>
    /\ UNCHANGED cacheVars

\* the input supplier adds a fetched record to the batch
Fetch(v) ==
    /\ Len(videos) < MaxVideos
    /\ videos' = Append(videos, v)
    /\ ret' = NoCall
    /\ UNCHANGED now
    /\ UNCHANGED cacheVars

CallScoreVideo(v) ==
    /\ ret' = Call("calculate_video_score", now, [NoArgs EXCEPT !.video = v],
                   FALSE, [score |-> calculate_video_score(v, now)])
    /\ UNCHANGED <<videos, now>>
    /\ UNCHANGED cacheVars

CallScoreChannel(ch, vs) ==
    /\ ret' = Call("calculate_channel_score", now,
                   [NoArgs EXCEPT !.channel = ch, !.videos = vs],
                   FALSE, [score |-> calculate_channel_score(ch, vs)])
    /\ UNCHANGED <<videos, now>>
    /\ UNCHANGED cacheVars

CallExtractTopics(top_n) ==
    /\ ret' = Returned("extract_topics_from_videos", now,
                       [NoArgs EXCEPT !.top_n = top_n],
                       extract_topics_from_videos(videos, top_n), "topics")
    /\ UNCHANGED <<videos, now>>
    /\ UNCHANGED cacheVars

CallAnalyzeVideoTrends(top_n_videos, top_n_topics) ==
    /\ ret' = Returned("analyze_video_trends", now,
                       [NoArgs EXCEPT !.top_n = top_n_topics,
                                      !.top_n_videos = top_n_videos],
                       analyze_video_trends(videos, top_n_videos, top_n_topics, now),
                       "payload")
    /\ videos' = AfterSorted(videos, now)
    /\ UNCHANGED now
    /\ UNCHANGED cacheVars

\* the mapping of the call: niche "x" is the batch, any other niche has
\* the list other
NichesData(names, batch, other) == [n \in names |-> IF n = "x" THEN batch ELSE other]

CallCompareNiches(names, other) ==
    /\ ret' = Returned("compare_niches", now,
                       [NoArgs EXCEPT !.niches_data = NichesData(names, videos, other)],
                       compare_niches(NichesData(names, videos, other), now),
                       "results")
    /\ videos' = AfterSorted(videos, now)
    /\ UNCHANGED now
    /\ UNCHANGED cacheVars

CallAnalyzeChannelTrends(channels, videos_by_channel, top_n) ==
    /\ ret' = Returned("analyze_channel_trends", now,
                       [NoArgs EXCEPT !.channels = channels, !.top_n = top_n,
                                      !.channels_left =
                                          ChannelsAfterScoring(channels, videos_by_channel)],
                       analyze_channel_trends(channels, videos_by_channel, top_n),
                       "payload")
    /\ UNCHANGED <<videos, now>>
    /\ UNCHANGED cacheVars

CallGenerateIdeas(topics, top_n_ideas) ==
    /\ ret' = Returned("generate_video_ideas", now,
                       [NoArgs EXCEPT !.topics = topics, !.top_n = top_n_ideas],
                       generate_video_ideas(topics, videos, top_n_ideas, now),
                       "ideas")
    /\ videos' = AfterSorted(videos, now)
    /\ UNCHANGED now
    /\ UNCHANGED cacheVars

\* the caller hands the topics extracted from the batch to
\* generate_video_ideas, together with the batch
CallIdeasFromTopics(top_n_topics, top_n_ideas) ==
    /\ ~extract_topics_from_videos(videos, top_n_topics).raised
    /\ ret' = Returned("generate_video_ideas", now,
                       [NoArgs EXCEPT
                           !.topics = extract_topics_from_videos(videos, top_n_topics).val,
                           !.top_n = top_n_ideas,
                           !.piped = TRUE],
                       generate_video_ideas(
                           extract_topics_from_videos(videos, top_n_topics).val,
                           videos, top_n_ideas, now),
                       "ideas")
    /\ videos' = AfterSorted(videos, now)
    /\ UNCHANGED now
    /\ UNCHANGED cacheVars

\* GET /trends with the batch as the fetched videos
CallGetTrends(max_results) ==
    /\ ret' = Returned("get_trends", now, [NoArgs EXCEPT !.top_n_videos = max_results],
                       get_trends(videos, max_results, now), "payload")
    /\ UNCHANGED <<videos, now>>
    /\ UNCHANGED cacheVars

\* the functions that take a required collection
CollectionOps == {"extract_topics_from_videos", "generate_video_ideas",
                  "analyze_video_trends", "analyze_channel_trends"}

FieldOf(op) ==
    IF op = "extract_topics_from_videos" THEN "topics"
    ELSE IF op = "generate_video_ideas" THEN "ideas"
    ELSE "payload"

\* the outcome of op called with None for its collection
OutcomeOfNone(op, vs, t) ==
    IF op = "extract_topics_from_videos"
    THEN extract_topics_from_videos(AfterGuard(None), MaxTopN)
    ELSE IF op = "generate_video_ideas"
    THEN generate_video_ideas(AfterGuard(None), vs, MaxTopN, t)
    ELSE IF op = "analyze_video_trends"
    THEN analyze_video_trends(AfterGuard(None), MaxTopN, MaxTopN, t)
    ELSE analyze_channel_trends(AfterGuard(None), <<>>, MaxTopN)

CallWithNone(op) ==
    /\ ret' = Returned(op, now, [NoArgs EXCEPT !.absent = TRUE],
                       OutcomeOfNone(op, videos, now), FieldOf(op))
    /\ UNCHANGED <<videos, now>>
    /\ UNCHANGED cacheVars

\* the input supplier hands over a batch
Load(batch) ==
    /\ videos' = batch
    /\ ret' = NoCall
    /\ UNCHANGED now
    /\ UNCHANGED cacheVars

CallParseDuration(duration_str) ==
    /\ ret' = Call("_parse_duration_to_seconds", now,
                   [NoArgs EXCEPT !.duration = duration_str],
                   FALSE, [seconds |-> parse_duration_to_seconds(duration_str)])
    /\ UNCHANGED <<videos, now>>
    /\ UNCHANGED cacheVars

\* analyze_video_trends while the clock advances by elapsed between the
\* sort and the scores of the reported entries
CallAnalyzeVideoTrendsOver(top_n_videos, top_n_topics, elapsed) ==
    /\ now + elapsed <= MaxNow
    /\ ret' = Returned("analyze_video_trends", now,
                       [NoArgs EXCEPT !.top_n = top_n_topics,
                                      !.top_n_videos = top_n_videos,
                                      !.elapsed = elapsed],
                       AnalyzeVideoTrendsOver(videos, top_n_videos, top_n_topics,
                                              now, now + elapsed),
                       "payload")
    /\ videos' = AfterSorted(videos, now)
    /\ now' = now + elapsed
    /\ UNCHANGED cacheVars

CallCompareNichesOver(names, other, elapsed) ==
    /\ now + elapsed <= MaxNow
    /\ ret' = Returned("compare_niches", now,
                       [NoArgs EXCEPT !.niches_data = NichesData(names, videos, other),
                                      !.elapsed = elapsed],
                       CompareNichesOver(NichesData(names, videos, other),
                                         now, now + elapsed),
                       "results")
    /\ videos' = AfterSorted(videos, now)
    /\ now' = now + elapsed
    /\ UNCHANGED cacheVars

\* cached_api_call finds the result in the cache and returns it
CacheHit(w, key) ==
    /\ calls[w].pc = "idle"
    /\ calls[w].started < MaxCallsPerWorker
    /\ key \in cache
    /\ calls' = [calls EXCEPT ![w].started = @ + 1, ![w].cache_key = key]
    /\ UNCHANGED <<quota, cache, now, engineVars>>

\* cached_api_call misses the cache and enters track_quota_usage
CacheMiss(w, key, quota_cost) ==
    /\ calls[w].pc = "idle"
    /\ calls[w].started < MaxCallsPerWorker
    /\ key \notin cache
    /\ calls' = [calls EXCEPT ![w].started = @ + 1, ![w].cache_key = key,
                              ![w].quota_cost = quota_cost, ![w].pc = "get"]
    /\ UNCHANGED <<quota, cache, now, engineVars>>

\* current_usage = redis_client.get(QUOTA_KEY), and the branch on it
GetQuota(w) ==
    /\ calls[w].pc = "get"
    /\ calls' = [calls EXCEPT
                    ![w].current_usage = IF Live(quota, now) THEN quota.value ELSE 0,
                    ![w].pc = IF Live(quota, now) THEN "set" ELSE "setex"]
    /\ UNCHANGED <<quota, cache, now, engineVars>>

\* redis_client.setex(QUOTA_KEY, seconds_until_midnight, '0')
InitQuota(w) ==
    /\ calls[w].pc = "setex"
    /\ quota' = Entry(0, EndOfDay(now))
    /\ calls' = [calls EXCEPT ![w].pc = "set"]
    /\ UNCHANGED <<cache, now, engineVars>>

\* redis_client.set(QUOTA_KEY, str(current_usage + cost)): SET without
\* KEEPTTL discards the expiry of the key
SetQuota(w) ==
    /\ calls[w].pc = "set"
    /\ quota' = Entry(calls[w].current_usage + calls[w].quota_cost, NoExpiry)
    /\ calls' = [calls EXCEPT ![w].pc = "call", ![w].charged = @ + calls[w].quota_cost]
    /\ UNCHANGED <<cache, now, engineVars>>

\* result = func(**params), then set_cached_result(cache_key, result, ttl)
CallAndStore(w) ==
    /\ calls[w].pc = "call"
    /\ cache' = cache \cup {calls[w].cache_key}
    /\ calls' = [calls EXCEPT ![w].pc = "idle"]
    /\ UNCHANGED <<quota, now, engineVars>>

\* the ttl of a cached result runs out
CacheExpires(key) ==
    /\ key \in cache
    /\ cache' = cache \ {key}
    /\ UNCHANGED <<quota, calls, now, engineVars>>

\* the caller takes the result of the last call
Respond ==
    /\ ret # NoCall
    /\ ret' = NoCall
    /\ UNCHANGED <<videos, now>>
    /\ UNCHANGED cacheVars

\* no result is pending: the engine is synchronous, a caller makes one
\* call at a time
Idle == ret = NoCall

\* the batch operations on the records the caller holds
Next ==
    \/ Tick
    \/ Respond
    \/ \E v \in VideoPool : Idle /\ Fetch(v)
    \/ \E top_n \in 0..MaxTopN : Idle /\ CallExtractTopics(top_n)
    \/ \E nv \in 0..MaxTopN, nt \in 0..MaxTopN :
           Idle /\ CallAnalyzeVideoTrends(nv, nt)
    \/ \E names \in SUBSET NicheNames, other \in {<<>>, <<VideoHowTo>>} :
           Idle /\ CallCompareNiches(names, other)
    \/ \E chs \in {<<>>, <<Channel("c1", Num(5000))>>} :
           Idle /\ CallAnalyzeChannelTrends(chs, [c \in {"c1"} |-> videos], MaxTopN)

Spec == Init /\ [][Next]_vars

\* the scoring functions and the duration parser applied to values drawn
\* from the pools; a
\* caller scores records one after the other, so calculate_video_score
\* may follow any call
NextScore ==
    \/ Tick
    \/ Respond
    \/ \E v \in ScorePool : CallScoreVideo(v)
    \/ \E ch \in ChannelPool, vs \in SeqsUpTo(VideoPool, MaxChannelVideos) :
           Idle /\ CallScoreChannel(ch, vs)
    \/ \E chs \in SeqsUpTo(ChannelPool, MaxChannels),
          by \in {<<>>, [c \in {"c1"} |-> <<VideoTop10, VideoHowTo>>]},
          n \in 0..MaxTopN :
           Idle /\ CallAnalyzeChannelTrends(chs, by, n)
    \/ \E d \in DurationPool : Idle /\ CallParseDuration(d)

SpecScore == Init /\ [][NextScore]_vars

\* every operation of the engine on the batches of BatchPool
NextEngine ==
    \/ Tick
    \/ Respond
    \/ \E batch \in BatchPool : Idle /\ Load(batch)
    \/ \E i \in 1..Len(videos) : Idle /\ CallScoreVideo(videos[i])
    \/ \E ch \in ChannelPool : Idle /\ CallScoreChannel(ch, videos)
    \/ \E top_n \in 0..MaxTopN : Idle /\ CallExtractTopics(top_n)
    \/ \E topics \in TopicLists, top_n \in 0..MaxIdeas :
           Idle /\ CallGenerateIdeas(topics, top_n)
    \/ \E nt \in 0..MaxTopN, top_n \in 0..MaxTopN :
           Idle /\ CallIdeasFromTopics(nt, top_n)
    \/ \E max_results \in 1..(MaxTopN + 1) : Idle /\ CallGetTrends(max_results)
    \/ \E nv \in 0..MaxTopN, nt \in 0..MaxTopN :
           Idle /\ CallAnalyzeVideoTrends(nv, nt)
    \/ \E names \in SUBSET NicheNames, other \in {<<>>, <<VideoHowTo>>} :
           Idle /\ CallCompareNiches(names, other)
    \/ \E chs \in SeqsUpTo(ChannelPool, MaxChannels), n \in 0..MaxTopN :
           Idle /\ CallAnalyzeChannelTrends(chs, [c \in {"c1"} |-> videos], n)
    \/ \E op \in CollectionOps : Idle /\ CallWithNone(op)

SpecEngine == Init /\ [][NextEngine]_vars

\* the two analyses on the batches of ClockBatches, the clock running
\* during a call
NextClock ==
    \/ Tick
    \/ Respond
    \/ \E batch \in ClockBatches : Idle /\ Load(batch)
    \/ \E nv \in 0..MaxTopN, nt \in 0..MaxTopN, elapsed \in 0..MaxNow :
           Idle /\ CallAnalyzeVideoTrendsOver(nv, nt, elapsed)
    \/ \E names \in SUBSET NicheNames, other \in {<<>>, <<VideoHowTo>>},
          elapsed \in 0..MaxNow :
           Idle /\ CallCompareNichesOver(names, other, elapsed)

SpecClock == Init /\ [][NextClock]_vars

\* concurrent cached_api_call invocations; a step of a worker is one
\* Redis command
NextCache ==
    \/ Tick
    \/ \E w \in Workers, key \in CacheKeys : CacheHit(w, key)
    \/ \E w \in Workers, key \in CacheKeys, cost \in QuotaCosts : CacheMiss(w, key, cost)
    \/ \E w \in Workers : GetQuota(w)
    \/ \E w \in Workers : InitQuota(w)
    \/ \E w \in Workers : SetQuota(w)
    \/ \E w \in Workers : CallAndStore(w)
    \/ \E key \in CacheKeys : CacheExpires(key)

SpecCache == Init /\ [][NextCache]_vars

---------------------------------------------------------------------------
(* Properties *)

IsCall(op) == ret.op = op

Range(f) == {f[i] : i \in DOMAIN f}

\* C1: for records with non-negative counts, calculate_video_score and
\* calculate_channel_score return a value in [0, 1] that is rounded to
\* 4 decimals
ScoreInUnitInterval ==
    (IsCall("calculate_video_score") \/ IsCall("calculate_channel_score")) =>
        /\ ~ret.raised
        /\ ret.val.score >= 0
        /\ ret.val.score <= Scale
        /\ ret.val.score % (Scale \div (10^4)) = 0

\* a video whose likes and comments exceed its views was scored
ScoreInUnitIntervalWitness ==
    /\ IsCall("calculate_video_score")
    /\ ~CountsRaise(VideoCounts(ret.arg.video))
    /\ VideoScoreTerms(ret.arg.video, ret.at).engagement_rate > Scale
    /\ ret.val.score > Scale \div 2

\* C2: two calls of calculate_video_score with the same record return the
\* same score, whatever the clock did between them
ScoreIndependentOfClock ==
    [][(/\ IsCall("calculate_video_score")
        /\ ret'.op = "calculate_video_score"
        /\ ret'.arg.video = ret.arg.video)
           => ret'.val.score = ret.val.score]_vars

\* likes + comments over ALL the videos of a list
SumAllEngagement(vs) ==
    SumSeq([i \in 1..Len(vs) |->
               IntOf(vs[i].statistics.likeCount) + IntOf(vs[i].statistics.commentCount)])

\* C3: the average_engagement_rate of analyze_video_trends and of every
\* niche of compare_niches is the sum of likes + comments over all the
\* videos of the list divided by the sum of their views, rounded to 4
\* decimals, and 0 when the view sum is 0
AggregateRateOverAllVideos ==
    /\ (IsCall("analyze_video_trends") /\ ~ret.raised /\ videos # <<>>) =>
           ret.val.payload.average_engagement_rate
               = AverageEngagementRate(SumAllEngagement(videos), TotalViews(videos))
    /\ (IsCall("compare_niches") /\ ~ret.raised) =>
           \A n \in DOMAIN ret.arg.niches_data :
               ret.arg.niches_data[n] # <<>> =>
                   ret.val.results[n].average_engagement_rate
                       = AverageEngagementRate(SumAllEngagement(ret.arg.niches_data[n]),
                                               TotalViews(ret.arg.niches_data[n]))

\* C4: every payload carries its count field, equal to the number of
\* input items, 0 included; the result of an empty niche has
\* total_videos_in_selection = 0 and empty lists
CountFieldAuthoritative ==
    /\ (IsCall("analyze_video_trends") /\ ~ret.raised) =>
           /\ "total_videos_analyzed" \in DOMAIN ret.val.payload
           /\ ret.val.payload.total_videos_analyzed = Len(videos)
    /\ (IsCall("analyze_channel_trends") /\ ~ret.raised) =>
           /\ "total_channels_analyzed" \in DOMAIN ret.val.payload
           /\ ret.val.payload.total_channels_analyzed = Len(ret.arg.channels)
    /\ IsCall("compare_niches") =>
           \A n \in DOMAIN ret.arg.niches_data :
               ~ret.raised =>
                   /\ "total_videos_in_selection" \in DOMAIN ret.val.results[n]
                   /\ ret.val.results[n].total_videos_in_selection
                          = Len(ret.arg.niches_data[n])
                   /\ ret.arg.niches_data[n] = <<>> =>
                          /\ ret.val.results[n].top_videos = <<>>
                          /\ ret.val.results[n].top_channels_in_niche = <<>>
                          /\ ret.val.results[n].trending_topics = <<>>

\* a record with a non-numeric count or without an id
Malformed(v) == CountsRaise(VideoCounts(v)) \/ v.id = NoId

\* C5: with exactly one malformed record in the batch,
\* extract_topics_from_videos, analyze_video_trends and compare_niches
\* raise no exception and return a result
OneBadRecordKeepsBatch ==
    (/\ IsCall("extract_topics_from_videos") \/ IsCall("analyze_video_trends")
           \/ IsCall("compare_niches")
     /\ Cardinality({i \in 1..Len(videos) : Malformed(videos[i])}) = 1)
        => ~ret.raised

\* C6: calculate_video_score never raises and returns 0.0 for a record
\* without statistics, whatever its publish date
NoStatisticsScoresZero ==
    (IsCall("calculate_video_score") /\ ~ret.arg.video.statistics.present) =>
        /\ ~ret.raised
        /\ ret.val.score = 0

\* the counts of the scored record are numerals and viewCount is 0
ScoredZeroViews ==
    /\ IsCall("calculate_video_score")
    /\ ret.arg.video.statistics.viewCount = Num(0)
    /\ ret.arg.video.statistics.likeCount.tag = "num"
    /\ ret.arg.video.statistics.commentCount.tag = "num"

\* C7: for a video with viewCount = 0, calculate_video_score raises
\* nothing, the view term and the engagement term are 0 and the score is
\* the recency term alone
ZeroViewsScoreIsRecency ==
    ScoredZeroViews =>
        /\ ~ret.raised
        /\ VideoScoreTerms(ret.arg.video, ret.at).normalized_views = 0
        /\ VideoScoreTerms(ret.arg.video, ret.at).engagement_rate = 0
        /\ ret.val.score
               = Round4((2 * RecencyScore(ret.arg.video.publishedAt, ret.at)) \div 10)

\* a video without views but with likes and comments got a positive score
ZeroViewsScoreIsRecencyWitness ==
    /\ ScoredZeroViews
    /\ ret.arg.video.statistics.likeCount.val > 0
    /\ ret.arg.video.statistics.commentCount.val > 0
    /\ ret.val.score > 0

\* the match texts of the pool titles, computed once
PoolTitleMatches == [title \in PoolTitles |-> TitleMatches(Lower(title), 1)]

\* the characters of a match that are not digits
NonDigits(m) == SelectSeq(m, LAMBDA c : ~IsDigit(c))

\* where the digit runs of a match sit among its other characters
DigitRunOffsets(m) ==
    {Cardinality({j \in 1..i : ~IsDigit(m[j])}) : i \in {k \in 1..Len(m) : IsDigit(m[k])}}

\* two match texts differ only in their digits
DifferOnlyInDigits(a, b) ==
    NonDigits(a) = NonDigits(b) /\ DigitRunOffsets(a) = DigitRunOffsets(b)

\* the batch with the titles 'Top 10 Gadgets', 'Top 5 Gadgets' and
\* 'How to Fix Gadgets', in any order
GadgetScenario ==
    Len(videos) = 3 /\ Range(videos) = {VideoTop10, VideoTop5, VideoHowTo}

\* C8: normalization maps matches that differ only in their digits to one
\* key and leaves a normalized key unchanged; for the three gadget titles
\* the extractor emits one 'top N' topic with video_count 2 and one
\* 'how to' topic with video_count 1
TopicKeysMerge ==
    (IsCall("extract_topics_from_videos") /\ ~ret.raised) =>
        /\ \A k \in 1..Len(ret.val.topics) :
               NormalizeTopic(ret.val.topics[k].name) = ret.val.topics[k].name
        /\ \A i, j \in 1..Len(videos) :
               \A a \in Range(PoolTitleMatches[videos[i].title]),
                  b \in Range(PoolTitleMatches[videos[j].title]) :
                   DifferOnlyInDigits(a, b) => NormalizeTopic(a) = NormalizeTopic(b)
        /\ (GadgetScenario /\ ret.arg.top_n >= 2) =>
               /\ Len(ret.val.topics) = 2
               /\ \E k \in 1..2 : /\ ret.val.topics[k].name = TopNKey
                                  /\ ret.val.topics[k].video_count = 2
               /\ \E k \in 1..2 : /\ ret.val.topics[k].name = HowToKey
                                  /\ ret.val.topics[k].video_count = 1

\* the extractor ran on the three gadget titles and returned two topics
TopicKeysMergeWitness ==
    /\ IsCall("extract_topics_from_videos")
    /\ ~ret.raised
    /\ GadgetScenario
    /\ Len(ret.val.topics) = 2

\* every topic of a list, before the sort and the slice
AllTopicEntries(vs) == Range(TopicEntries(TopicPerformance(vs, 1, <<>>)))

\* topics is sorted, no longer than top_n, and no entry of all outside it
\* sorts before one inside
IsRankedPrefix(topics, all, top_n) ==
    /\ Len(topics) <= top_n
    /\ Len(topics) = Min(top_n, Cardinality(all))
    /\ \A i \in 1..Len(topics) : topics[i] \in all
    /\ \A i \in 1..(Len(topics) - 1) :
           \/ topics[i].composite_score > topics[i + 1].composite_score
           \/ /\ topics[i].composite_score = topics[i + 1].composite_score
              /\ topics[i].video_count >= topics[i + 1].video_count
    /\ \A e \in all \ Range(topics) : \A i \in 1..Len(topics) :
           \/ e.composite_score < topics[i].composite_score
           \/ /\ e.composite_score = topics[i].composite_score
              /\ e.video_count <= topics[i].video_count

\* C9: the list returned for top_n >= 0 has at most top_n entries, is in
\* non-increasing order of composite_score with ties in non-increasing
\* order of video_count, and is a prefix of the full ranking
TopicsRankedPrefix ==
    (IsCall("extract_topics_from_videos") /\ ~ret.raised) =>
        IsRankedPrefix(ret.val.topics, AllTopicEntries(videos), ret.arg.top_n)

\* a topic was cut off that ties with the last emitted topic on
\* composite_score and has the smaller video_count
TopicsRankedPrefixWitness ==
    /\ IsCall("extract_topics_from_videos")
    /\ ~ret.raised
    /\ Len(ret.val.topics) = 2
    /\ \E e \in AllTopicEntries(videos) \ Range(ret.val.topics) :
           /\ e.composite_score = ret.val.topics[2].composite_score
           /\ e.video_count < ret.val.topics[2].video_count

\* the records of the batch whose title yields the topic
Contributors(name) ==
    {i \in 1..Len(videos) : name \in Range(VideoTopics(videos[i]))}

\* C10: every emitted topic has video_count >= 1, equal to the number of
\* distinct ids among the records whose title yielded the topic
TopicVideoCountDistinctIds ==
    (IsCall("extract_topics_from_videos") /\ ~ret.raised) =>
        \A k \in 1..Len(ret.val.topics) :
            /\ ret.val.topics[k].video_count >= 1
            /\ ret.val.topics[k].video_count
                   = Cardinality({videos[i].id : i \in Contributors(ret.val.topics[k].name)})
            /\ ret.val.topics[k].video_count <= Len(videos)

\* a topic of three records, two of them with the same id, was emitted
TopicVideoCountDistinctIdsWitness ==
    /\ IsCall("extract_topics_from_videos")
    /\ ~ret.raised
    /\ \E k \in 1..Len(ret.val.topics) :
           /\ ret.val.topics[k].video_count = 2
           /\ Cardinality(Contributors(ret.val.topics[k].name)) = 3

\* C11: no call changes a caller-owned input: the batch and the channel
\* list are after the call what they were before it, and no record of the
\* batch carries a score field
InputsUntouched ==
    [][ret'.op # "none" =>
          /\ videos' = videos
          /\ ret'.arg.channels_left = ret'.arg.channels
          /\ \A i \in 1..Len(videos') : "score" \notin DOMAIN videos'[i]]_vars

\* analyze_video_trends returned the batch in another order, with scores
InputsUntouchedWitness ==
    /\ IsCall("analyze_video_trends")
    /\ ~ret.raised
    /\ Len(ret.val.payload.top_videos) >= 2
    /\ ret.val.payload.top_videos[1].id # videos[1].id
    /\ ret.val.payload.top_videos[1].score > 0

\* the mapping with the niche n of niches_data alone
OnlyNiche(niches_data, n) == [m \in {n} |-> niches_data[m]]

NoneIsContractError ==
    (ret.op \in CollectionOps /\ ret.arg.absent) => ret.raised

\* C14: generate_video_ideas raises nothing; it returns no idea when the
\* topics or the videos are empty, and else min(top_n, number of topics)
\* ideas, the i-th about the i-th topic of the ranking
IdeasFollowRanking ==
    (IsCall("generate_video_ideas") /\ ~ret.arg.absent) =>
        /\ ~ret.raised
        /\ (ret.arg.topics = <<>> \/ videos = <<>>) => ret.val.ideas = <<>>
        /\ (ret.arg.topics # <<>> /\ videos # <<>>) =>
               /\ Len(ret.val.ideas) = Min(ret.arg.top_n, Len(ret.arg.topics))
               /\ \A i \in 1..Len(ret.val.ideas) :
                      ret.val.ideas[i].topic = ret.arg.topics[i].name

\* more than five ideas were asked for and produced, one topic was left over
IdeasFollowRankingWitness ==
    /\ IsCall("generate_video_ideas")
    /\ videos # <<>>
    /\ ret.arg.top_n > IDEA_MIN_TOPICS
    /\ Len(ret.arg.topics) > ret.arg.top_n
    /\ Len(ret.val.ideas) = ret.arg.top_n

\* the candidates whose title contains the topic name, case ignored
Mentions(candidates, topic_name) ==
    {k \in 1..Len(candidates) :
        Contains(Lower(candidates[k].title), Lower(topic_name))}

\* the members of ks whose score at instant t reaches best
ScoredAtLeast(candidates, ks, t, best) ==
    {k \in ks : calculate_video_score(candidates[k], t) >= best}

\* the members of ks that no other member outscores at instant t
BestScored(candidates, ks, t) ==
    ScoredAtLeast(candidates, ks, t,
                  SetMax({calculate_video_score(candidates[j], t) : j \in ks}))

\* the titles, cut as the idea shows them, of the highest-scored members
\* of ks
CutTitles(candidates, ks, t) ==
    {Take(candidates[k].title, EXAMPLE_TITLE_CUT) : k \in BestScored(candidates, ks, t)}

\* the titles the exemplar of a topic may have, sorted_videos being the
\* list by descending score
ExemplarTitles(sorted_videos, topic_name, t) ==
    IF Mentions(Take(sorted_videos, EXAMPLE_POOL), topic_name) # {}
    THEN CutTitles(Take(sorted_videos, EXAMPLE_POOL),
                   Mentions(Take(sorted_videos, EXAMPLE_POOL), topic_name), t)
    ELSE CutTitles(sorted_videos, 1..Len(sorted_videos), t)

\* the exemplar of every idea is one of the titles its topic may have
ExemplarsAmong(ideas, sorted_videos, t) ==
    \A i \in 1..Len(ideas) :
        ideas[i].title.fills[2] \in ExemplarTitles(sorted_videos, ideas[i].topic, t)

\* C15: the exemplar of every idea is a highest-scored video among those of
\* the 10 highest-scored videos whose title contains the topic name, case
\* ignored, and without such a video a highest-scored video of the list
ExemplarIsBestMention ==
    (IsCall("generate_video_ideas") /\ ~ret.arg.absent) =>
        ExemplarsAmong(ret.val.ideas, SortByScore(videos, 1, <<>>, ret.at), ret.at)

\* the only video that mentions the topic is behind the 10 highest-scored
\* ones, and the exemplar is the highest-scored video
ExemplarIsBestMentionWitness ==
    /\ IsCall("generate_video_ideas")
    /\ Len(videos) > EXAMPLE_POOL
    /\ Len(ret.val.ideas) >= 1
    /\ ret.val.ideas[1].topic = VlogKey
    /\ Mentions(videos, VlogKey) # {}
    /\ ret.val.ideas[1].title.fills[2] = TitlePlain

TopKey == <<"t", "o", "p">>

BestKey == <<"b", "e", "s", "t">>

TutorialKey == <<"t", "u", "t", "o", "r", "i", "a", "l">>

\* the class of a topic name by the keywords it contains
KeywordClass(topic_name) ==
    IF \/ Contains(Lower(topic_name), HowToKey)
       \/ Contains(Lower(topic_name), GuideKey)
       \/ Contains(Lower(topic_name), TutorialKey)
    THEN "instructional"
    ELSE IF Contains(Lower(topic_name), ReviewKey) THEN "pros and cons"
    ELSE IF Contains(Lower(topic_name), TopKey) \/ Contains(Lower(topic_name), BestKey)
    THEN "countdown"
    ELSE IF Contains(Lower(topic_name), ChallengeKey) THEN "challenge"
    ELSE "generic"

\* the literal texts of an idea, its holes left open
TemplatesOf(idea) ==
    <<idea.title.template, idea.description.template,
      idea.format_suggestion.template, idea.thumbnail_tip.template>>

\* C16: the texts of an idea come from a template chosen by the keyword
\* class of the topic name: ideas for topics of different classes do not
\* have the same template
TemplateKeyedOnKeywords ==
    IsCall("generate_video_ideas") =>
        \A i, j \in 1..Len(ret.val.ideas) :
            KeywordClass(ret.val.ideas[i].topic) # KeywordClass(ret.val.ideas[j].topic)
                => TemplatesOf(ret.val.ideas[i]) # TemplatesOf(ret.val.ideas[j])

\* the channel of the scored call has numeric counts all over
ScoredChannelCounts ==
    /\ IsCall("calculate_channel_score")
    /\ ~ChannelCountsRaise(IntOf(ret.arg.channel.subscriberCount),
                           ChannelViewCounts(ret.arg.videos))

\* round(0.3 * normalized subscriber count, 4)
SubscriberOnlyScore(channel) ==
    Round4((3 * NormalizedLog(IntOf(channel.subscriberCount), 1, SUBSCRIBER_BENCHMARK))
               \div 10)

\* C17: without associated videos calculate_channel_score returns
\* round(0.3 * normalized subscribers, 4); with videos of which fewer than
\* two have a parseable publish date the posting-frequency term is 0
ChannelScoreDegrades ==
    ScoredChannelCounts =>
        /\ ret.arg.videos = <<>> => ret.val.score = SubscriberOnlyScore(ret.arg.channel)
        /\ ChannelDateCount(ret.arg.videos) < 2 =>
               ret.val.score
                   = Round4(WeightedChannelScore(
                         NormalizedLog(IntOf(ret.arg.channel.subscriberCount), 1,
                                       SUBSCRIBER_BENCHMARK),
                         NormalizedAvgViews(ChannelViewCounts(ret.arg.videos)),
                         0))

\* a channel was scored with videos of which one has a parseable date, and
\* their views raised the score above the subscriber-only score
ChannelScoreDegradesWitness ==
    /\ ScoredChannelCounts
    /\ Len(ret.arg.videos) = 2
    /\ ChannelDateCount(ret.arg.videos) = 1
    /\ ret.val.score > SubscriberOnlyScore(ret.arg.channel)
    /\ SubscriberOnlyScore(ret.arg.channel) > 0

\* the values of a component of a token; -1 is the absent component
Components == -1..MaxComponent

\* an absent component counts as 0
ComponentCount(n) == IF n < 0 THEN 0 ELSE n

IsDurationToken(text) ==
    \E h \in Components, m \in Components, s \in Components :
        text = DurationToken(h, m, s)

\* C18: _parse_duration_to_seconds never raises; for the token PT#H#M#S it
\* returns hours * 3600 + minutes * 60 + seconds, an absent component
\* counting as 0; for every other input (None, the empty string, trailing
\* garbage after a token, components out of order) it returns 0
DurationIsTotalOrZero ==
    IsCall("_parse_duration_to_seconds") =>
        /\ ~ret.raised
        /\ \A h \in Components, m \in Components, s \in Components :
               (/\ ret.arg.duration.given
                /\ ret.arg.duration.items = DurationToken(h, m, s))
                   => ret.val.seconds = ComponentCount(h) * 3600
                                            + ComponentCount(m) * 60
                                            + ComponentCount(s)
        /\ (\/ ~ret.arg.duration.given
            \/ ~IsDurationToken(ret.arg.duration.items))
               => ret.val.seconds = 0

\* likes + comments exceeds views, views > 0, all three counts converting
EngagementExceedsViews(c) ==
    /\ ~CountsRaise(c)
    /\ c.view > 0
    /\ c.like + c.comment > c.view

\* the reported rate is the ratio engagement / views to 4 decimals, and is
\* above 1
IsUnclampedRate(rate, engagement, views) ==
    /\ rate > Scale
    /\ 2 * (10^4) * (rate * views - engagement * Scale) <= views * Scale
    /\ 2 * (10^4) * (engagement * Scale - rate * views) <= views * Scale

\* C19: when likes + comments exceeds views (views > 0) the engagement
\* term of calculate_video_score is exactly 0.4, the rate being clamped to
\* 1 before it is weighted; the average_engagement_rate that
\* analyze_video_trends and compare_niches report for videos whose summed
\* likes + comments exceeds their summed views is the unclamped ratio,
\* above 1
ClampedInScoreOnly ==
    /\ (/\ IsCall("calculate_video_score")
        /\ EngagementExceedsViews(VideoCounts(ret.arg.video)))
           => ret.val.score
                  = Round4((4 * NormalizedViews(VideoCounts(ret.arg.video).view)
                              + 4 * Scale
                              + 2 * RecencyScore(ret.arg.video.publishedAt, ret.at))
                           \div 10)
    /\ (/\ IsCall("analyze_video_trends")
        /\ ~ret.raised
        /\ ~ret.arg.absent
        /\ \A i \in 1..Len(videos) : EngagementExceedsViews(VideoCounts(videos[i]))
        /\ videos # <<>>)
           => IsUnclampedRate(ret.val.payload.average_engagement_rate,
                              TotalEngagementSum(videos), TotalViews(videos))
    /\ (IsCall("compare_niches") /\ ~ret.raised) =>
           \A n \in DOMAIN ret.arg.niches_data :
               (/\ ret.arg.niches_data[n] # <<>>
                /\ \A i \in 1..Len(ret.arg.niches_data[n]) :
                       EngagementExceedsViews(VideoCounts(ret.arg.niches_data[n][i])))
                   => IsUnclampedRate(ret.val.results[n].average_engagement_rate,
                                      TotalEngagementSum(ret.arg.niches_data[n]),
                                      TotalViews(ret.arg.niches_data[n]))

\* the batch of a trend analysis was one video with more likes and
\* comments than views, and the reported rate is 1.57
ClampedInScoreOnlyWitness ==
    /\ IsCall("analyze_video_trends")
    /\ ~ret.raised
    /\ ~ret.arg.absent
    /\ videos = <<VideoViral>>
    /\ EngagementExceedsViews(VideoCounts(VideoViral))
    /\ ret.val.payload.average_engagement_rate = 1570000

\* the topic names among match texts: the normalized match texts longer
\* than 2 characters
NamesOfMatches(matches) ==
    {name \in {NormalizeTopic(matches[k]) : k \in 1..Len(matches)} : Len(name) > 2}

\* the names the titles of the pool mention, computed once
PoolMentionedNames ==
    [title \in PoolTitles |-> NamesOfMatches(TitleMatches(Lower(title), 1))]

\* the topic names a title mentions
MentionedNames(title) ==
    IF title \in PoolTitles THEN PoolMentionedNames[title]
    ELSE NamesOfMatches(TitleMatches(Lower(title), 1))

NamedMatches(matches, name) ==
    {k \in 1..Len(matches) : NormalizeTopic(matches[k]) = name}

\* the number of matches in a title that normalize to the name
MatchesOfName(title, name) ==
    Cardinality(NamedMatches(TitleMatches(Lower(title), 1), name))

\* the views of the records that mention the name, each record once
ViewsOnceEach(vs, name) ==
    SumSeq([i \in 1..Len(vs) |->
               IF name \in MentionedNames(vs[i].title)
               THEN VideoCounts(vs[i]).view ELSE 0])

\* likes + comments of the records that mention the name, each record once
EngagementOnceEach(vs, name) ==
    SumSeq([i \in 1..Len(vs) |->
               IF name \in MentionedNames(vs[i].title)
               THEN EngagementComponent(VideoCounts(vs[i]).view,
                                        VideoCounts(vs[i]).like,
                                        VideoCounts(vs[i]).comment)
               ELSE 0])

\* C20: in the result of extract_topics_from_videos a record counts once
\* for a topic, however many matches of its title normalize to the topic
\* name: aggregated_views is the sum of the views of the records that
\* mention the topic, and avg_engagement_score_per_video is the sum of
\* their likes + comments over video_count, rounded to 2 decimals
VideoCountsOncePerTopic ==
    (/\ IsCall("extract_topics_from_videos")
     /\ ~ret.raised
     /\ ~ret.arg.absent) =>
        \A i \in 1..Len(ret.val.topics) :
            /\ ret.val.topics[i].aggregated_views
                   = ViewsOnceEach(videos, ret.val.topics[i].name)
            /\ ret.val.topics[i].avg_engagement_score_per_video
                   = Round2(EngagementOnceEach(videos, ret.val.topics[i].name),
                            ret.val.topics[i].video_count)

\* topics were returned for a batch with a title in which two matches
\* normalize to one topic name
VideoCountsOncePerTopicWitness ==
    /\ IsCall("extract_topics_from_videos")
    /\ ~ret.raised
    /\ ~ret.arg.absent
    /\ \E i \in 1..Len(ret.val.topics) : \E j \in 1..Len(videos) :
           /\ MatchesOfName(videos[j].title, ret.val.topics[i].name) >= 2
           /\ VideoCounts(videos[j]).view > 0
           /\ ret.val.topics[i].aggregated_views > 0

\* likes + comments of the records that mention the name, whatever their
\* view count
LikesAndCommentsOfAll(vs, name) ==
    SumSeq([i \in 1..Len(vs) |->
               IF name \in MentionedNames(vs[i].title)
               THEN VideoCounts(vs[i]).like + VideoCounts(vs[i]).comment
               ELSE 0])

\* C21: for every topic extract_topics_from_videos returns, the engagement
\* total behind avg_engagement_score_per_video is the sum of likes +
\* comments over all the records that contribute to the topic, those with
\* a view count of 0 included
EngagementSumsEveryContributor ==
    (IsCall("extract_topics_from_videos") /\ ~ret.raised /\ ~ret.arg.absent) =>
        \A i \in 1..Len(ret.val.topics) :
            ret.val.topics[i].avg_engagement_score_per_video
                = Round2(LikesAndCommentsOfAll(videos, ret.val.topics[i].name),
                         ret.val.topics[i].video_count)

\* the ids of the records that mention the name; a record without an id
\* that mentions a topic makes the call raise
MentioningIds(vs, name) ==
    {vs[i].id : i \in {j \in 1..Len(vs) : name \in MentionedNames(vs[j].title)}}

\* the view counts of the records with the id that mention the name
ViewsUnderId(vs, name, id) ==
    {VideoCounts(vs[i]).view :
        i \in {j \in 1..Len(vs) : vs[j].id = id /\ name \in MentionedNames(vs[j].title)}}

RECURSIVE SumOver(_, _, _, _)
\* the sum over the ids of the largest (pick = 1) or the smallest view
\* count recorded under the id
SumOver(vs, name, ids, pick) ==
    IF ids = {} THEN 0
    ELSE (IF pick = 1
          THEN SetMax(ViewsUnderId(vs, name, CHOOSE id \in ids : TRUE))
          ELSE SetMin(ViewsUnderId(vs, name, CHOOSE id \in ids : TRUE)))
         + SumOver(vs, name, ids \ {CHOOSE id \in ids : TRUE}, pick)

\* C25: for every topic extract_topics_from_videos returns, video_count is
\* the number of distinct ids among the contributing records and
\* aggregated_views counts the views of each distinct id once, also when
\* two records of the list have the same id: it lies between the sum of
\* the smallest and the sum of the largest view count recorded under each
\* id
ViewsOncePerDistinctId ==
    (IsCall("extract_topics_from_videos") /\ ~ret.raised /\ ~ret.arg.absent) =>
        \A i \in 1..Len(ret.val.topics) :
            /\ ret.val.topics[i].video_count
                   = Cardinality(MentioningIds(videos, ret.val.topics[i].name))
            /\ ret.val.topics[i].aggregated_views
                   <= SumOver(videos, ret.val.topics[i].name,
                              MentioningIds(videos, ret.val.topics[i].name), 1)
            /\ ret.val.topics[i].aggregated_views
                   >= SumOver(videos, ret.val.topics[i].name,
                              MentioningIds(videos, ret.val.topics[i].name), 0)

\* the records of vs that go before the i-th one in the list by descending
\* score at instant t: the better scored ones, and the ones of equal score
\* that come earlier in vs
GoBefore(vs, i, t) ==
    {j \in 1..Len(vs) :
        \/ calculate_video_score(vs[j], t) > calculate_video_score(vs[i], t)
        \/ /\ calculate_video_score(vs[j], t) = calculate_video_score(vs[i], t)
           /\ j < i}

\* the record at place k of that list
RecordAtPlace(vs, k, t) ==
    vs[CHOOSE i \in 1..Len(vs) : Cardinality(GoBefore(vs, i, t)) = k - 1]

\* a top_videos entry of analyze_video_trends reports the record v
ReportsVideo(entry, v) ==
    /\ entry.id = v.id
    /\ entry.title = v.title
    /\ entry.published_at = v.publishedAt
    /\ entry.views = IntOf(v.statistics.viewCount)
    /\ entry.likes = IntOf(v.statistics.likeCount)
    /\ entry.comments = IntOf(v.statistics.commentCount)

\* C22: top_videos of analyze_video_trends has min(top_n_videos, number of
\* input videos) entries; its k-th entry is the record with the k-th
\* highest score at the instant of the sort, records of equal score in the
\* order of the input list; the reported scores are non-increasing when
\* the clock does not advance during the call
TopVideosStableByScore ==
    (IsCall("analyze_video_trends") /\ ~ret.raised) =>
        /\ Len(ret.val.payload.top_videos) = Min(ret.arg.top_n_videos, Len(videos))
        /\ \A k \in 1..Len(ret.val.payload.top_videos) :
               ReportsVideo(ret.val.payload.top_videos[k],
                            RecordAtPlace(videos, k, ret.at))
        /\ ret.arg.elapsed = 0 =>
               \A k \in 1..(Len(ret.val.payload.top_videos) - 1) :
                   ret.val.payload.top_videos[k].score
                       >= ret.val.payload.top_videos[k + 1].score

\* two different records of equal score were reported, in input order,
\* behind a better scored one that comes after them in the input
TopVideosStableByScoreWitness ==
    /\ IsCall("analyze_video_trends")
    /\ ~ret.raised
    /\ videos = <<VideoNoStats, VideoNoViews, VideoTop10>>
    /\ calculate_video_score(VideoNoStats, ret.at)
           = calculate_video_score(VideoNoViews, ret.at)
    /\ calculate_video_score(VideoNoStats, ret.at) > 0
    /\ Len(ret.val.payload.top_videos) = 2
    /\ ret.arg.top_n_videos = 2
    /\ ret.val.payload.top_videos[1].id = VideoTop10.id
    /\ ret.val.payload.top_videos[2].id = VideoNoStats.id

\* the score fields of a list of reported entries never increase
ScoresNeverIncrease(top_videos) ==
    \A k \in 1..(Len(top_videos) - 1) : top_videos[k].score >= top_videos[k + 1].score

\* C26: in every payload of analyze_video_trends and of compare_niches the
\* scores reported in top_videos are non-increasing from the first entry
\* to the last, also when the clock advances between the sort and the
\* scoring of the reported entries
ReportedScoresOrdered ==
    /\ (IsCall("analyze_video_trends") /\ ~ret.raised) =>
           ScoresNeverIncrease(ret.val.payload.top_videos)
    /\ (IsCall("compare_niches") /\ ~ret.raised) =>
           \A n \in DOMAIN ret.val.results :
               ScoresNeverIncrease(ret.val.results[n].top_videos)

\* the channel ids of the records of a niche
ChannelIdsOf(vs) == {vs[i].channelId : i \in 1..Len(vs)} \ {NoChannel}

\* the records of the channel in the niche
RecordsOfChannel(vs, cid) == {i \in 1..Len(vs) : vs[i].channelId = cid}

\* the views of the records of the channel in the niche
ViewsOfChannel(vs, cid) ==
    SumSeq([i \in 1..Len(vs) |->
               IF vs[i].channelId = cid THEN IntOf(vs[i].statistics.viewCount) ELSE 0])

\* entries is the ranking of the channels of vs by views, cut at
\* NICHE_TOP_CHANNELS
IsChannelRanking(entries, vs) ==
    /\ Len(entries) = Min(NICHE_TOP_CHANNELS, Cardinality(ChannelIdsOf(vs)))
    /\ \A k \in 1..Len(entries) :
           /\ entries[k].id \in ChannelIdsOf(vs)
           /\ \A l \in 1..Len(entries) : entries[k].id = entries[l].id => k = l
           /\ entries[k].niche_video_count
                  = Cardinality(RecordsOfChannel(vs, entries[k].id))
           /\ entries[k].niche_total_views = ViewsOfChannel(vs, entries[k].id)
           /\ k < Len(entries) =>
                  entries[k].niche_total_views >= entries[k + 1].niche_total_views
           /\ \A cid \in ChannelIdsOf(vs) \ {entries[l].id : l \in 1..Len(entries)} :
                  ViewsOfChannel(vs, cid) <= entries[k].niche_total_views

\* C23: for each non-empty niche of compare_niches, top_channels_in_niche
\* has one entry per distinct channelId of the niche's videos (records
\* without channelId left out), at most 5 of them, the channels with the
\* most views; niche_video_count and niche_total_views are the count and
\* the view sum of the channel's records in the list, and the entries are
\* in non-increasing order of niche_total_views
TopChannelsRanked ==
    (IsCall("compare_niches") /\ ~ret.raised) =>
        \A n \in DOMAIN ret.arg.niches_data :
            ret.arg.niches_data[n] # <<>> =>
                IsChannelRanking(ret.val.results[n].top_channels_in_niche,
                                 ret.arg.niches_data[n])

\* a niche with six channels and a record without channelId was ranked:
\* five entries, the channel with two records first
TopChannelsRankedWitness ==
    /\ IsCall("compare_niches")
    /\ ~ret.raised
    /\ "x" \in DOMAIN ret.arg.niches_data
    /\ ret.arg.niches_data["x"] = ChannelSpread
    /\ Cardinality(ChannelIdsOf(ChannelSpread)) > NICHE_TOP_CHANNELS
    /\ Len(ret.val.results["x"].top_channels_in_niche) = NICHE_TOP_CHANNELS
    /\ ret.val.results["x"].top_channels_in_niche[1]
           = [id |-> "c2", niche_video_count |-> 2, niche_total_views |-> 550]

\* the estimates of an idea are the ones its topic calls for
EstimatesOf(idea, avg_views, video_count) ==
    /\ idea.estimated_view_potential = "High" <=> avg_views > 100000
    /\ idea.estimated_view_potential = "Low to Medium" <=> avg_views < 10000
    /\ idea.estimated_view_potential = "Medium"
           <=> (avg_views >= 10000 /\ avg_views <= 100000)
    /\ idea.estimated_competition = "High"
           <=> (video_count > 10 /\ avg_views > 50000)
    /\ idea.estimated_competition = "Low"
           <=> (~(video_count > 10 /\ avg_views > 50000) /\ video_count < 5)
    /\ idea.estimated_competition = "Medium"
           <=> (~(video_count > 10 /\ avg_views > 50000) /\ video_count >= 5)

TopicContributors(candidates, topic_name) ==
    {k \in 1..Len(candidates) : topic_name \in MentionedNames(candidates[k].title)}

\* the exemplar is a contributor of the topic when one of the 10
\* highest-scored videos is
ExemplarContributes(idea, sorted_videos) ==
    TopicContributors(Take(sorted_videos, EXAMPLE_POOL), idea.topic) # {} =>
        idea.title.fills[2]
            \in {Take(sorted_videos[k].title, EXAMPLE_TITLE_CUT) :
                    k \in TopicContributors(Take(sorted_videos, EXAMPLE_POOL), idea.topic)}

\* C27: when generate_video_ideas is given the topics that
\* extract_topics_from_videos produced from the same videos, the exemplar
\* of a topic is a video that contributed to the topic whenever a
\* contributing video is among the 10 highest-scored videos, for every
\* topic name, the names with the digit placeholder ('top N') included
ExemplarContributedToTopic ==
    (IsCall("generate_video_ideas") /\ ret.arg.piped /\ ~ret.raised) =>
        \A i \in 1..Len(ret.val.ideas) :
            ExemplarContributes(ret.val.ideas[i],
                                SortByScore(videos, 1, <<>>, ret.at))

\* the titles of the analysed videos, cut as an idea quotes them
QuotableTitles(vs) == {Take(vs[i].title, EXAMPLE_TITLE_CUT) : i \in 1..Len(vs)}

\* C28: every idea in video_ideas of GET /trends quotes the title of one of
\* the analysed videos and never the placeholder 'Example Title'
IdeasQuoteAnalysedTitles ==
    (IsCall("get_trends") /\ ~ret.raised) =>
        \A i \in 1..Len(ret.val.payload.video_ideas) :
            /\ ret.val.payload.video_ideas[i].title.fills[2] # EXAMPLE_TITLE
            /\ ret.val.payload.video_ideas[i].title.fills[2] \in QuotableTitles(videos)

\* no worker is inside cached_api_call
AllReturned == \A w \in Workers : calls[w].pc = "idle"

\* the usage stored under the quota key
StoredUsage == IF Live(quota, now) THEN quota.value ELSE 0

\* the quota costs of the invocations that missed the cache
ChargedCosts == SumSeq([w \in 1..MaxWorkers |-> calls[w].charged])

\* C29: after any interleaving of concurrent cached_api_call invocations
\* that miss the cache, the usage stored under the quota key is the
\* previous usage plus the sum of their quota costs: no increment of
\* track_quota_usage is lost
NoIncrementLost == AllReturned => StoredUsage = ChargedCosts

\* C30: after any sequence of track_quota_usage calls the quota key still
\* carries the expiry set at its initialisation, the end of a UTC day, so
\* that the usage returns to 0 at midnight
QuotaKeyKeepsExpiry ==
    (AllReturned /\ quota.present) =>
        /\ quota.expires # NoExpiry
        /\ quota.expires % TicksPerDay = 0

====
